---- MODULE Spec2Model ----
(***************************************************************************)
(* Carrier registry and CRM sync status store of usdot_lookup_tool.        *)
(*                                                                         *)
(* The database holds two tables, carrierdata and sobject_sync_status.     *)
(* Every CRUD function receives an ORM session `db`.  A session stages the *)
(* in-place mutations of loaded rows and the added objects; commit writes  *)
(* them in one transaction, rollback and close discard them.  A handler is *)
(* split at its database round trips: the step that runs its selects and   *)
(* in-memory mutations (XxxBegin) and the step that runs db.commit()       *)
(* (Commit).  Staged writes reach the tables at commit; row locks taken by  *)
(* an autoflush are not modelled.                                           *)
(***************************************************************************)
EXTENDS Integers, Sequences, FiniteSets, TLC

\* ---- bounds of the model ----
MaxBatch == 2
MaxOps == 3
MaxMappingCalls == 3
MaxBillingCalls == 4
MaxUploads == 2
MaxTokens == 2
MaxWall == 3000

\* ---- value universes ----
Sessions == {"s1", "s2"}
Usdots == {"123456", "789012"}
Orgs == {"orgA", "orgB"}
\* (user_id, org_id) pairs the authentication layer supplies.
Actors == {<<"u1", "orgA">>, <<"u2", "orgA">>, <<"u3", "orgB">>}
Statuses == {"PENDING", "SUCCESS", "FAILED"}
ExternalIds == {"acc_001"}
NULL == "NULL"
\* None in a timestamp column: the clock reads 1 or more at every call.
NoTimestamp == 0

Keys == Usdots \X Orgs

\* What the caller asks to look up: a usdot and whether the registry lookup
\* succeeds.  The registry's record of a carrier changes over time: a lookup
\* made at clock value t returns revision t in every attribute (legal_name and
\* phone stand for the registry-derived attributes).  The upload routes call
\* save_carrier_data_bulk with a non-empty list only.
LookupRequests == Usdots \X BOOLEAN

\* Batches are listed in usdot order (the order of a batch only decides the
\* order of the rows written).
BatchRequests ==
  { b \in UNION { [1..n -> LookupRequests] : n \in 1..MaxBatch } :
      \A i, j \in DOMAIN b : i < j => ~(b[i][1] = "789012" /\ b[j][1] = "123456") }

CarrierDataCreate(lr, t) ==
  [usdot |-> lr[1], legal_name |-> t, phone |-> t, lookup_success_flag |-> lr[2]]

VARIABLES
  carriers,   \* table carrierdata: sequence of rows
  syncs,      \* table sobject_sync_status: sequence of rows
  now,        \* the clock: it advances by one with every call made
  pc,         \* per session: "idle" or "commit" (between selects and db.commit())
  req,        \* per session: the call in flight
  pend,       \* per session: the session's staged, uncommitted changes
  last,       \* the call that completed last, with its outcome
  history,    \* table crm_sync_history: sequence of rows, in order of insertion
  mappings,   \* table salesforcefieldmapping: sequence of rows
  mjob,       \* per session: the field-mapping call in flight
  mlast,      \* the field-mapping call that completed last, with its result
  mcalls,     \* the number of field-mapping calls made
  subscriptions, \* table subscription: sequence of rows
  quotas,     \* table usagequota: sequence of rows
  blast,      \* the billing call that completed last, with its outcome
  bcalls,     \* the number of billing calls made
  bjob,       \* per session: the create_subscription call in flight
  ocr,        \* table ocrresult: sequence of rows
  ulast,      \* the manual upload request served last, with its outcome
  wall,       \* the wall clock read by the middleware, in seconds
  session,    \* the browser session: a dictionary, here with at most the key last_activity
  slast       \* the request dispatched last, with its outcome

crmVars == <<carriers, syncs, now, pc, req, pend, last>>

mapVars == <<mappings, mjob, mlast, mcalls>>

billVars == <<subscriptions, quotas, blast, bcalls, bjob>>

manVars == <<ocr, ulast>>

sessVars == <<wall, session, slast>>

\* the tables that the carrier and sync-status functions never touch
aux == <<history, mapVars, billVars, manVars, sessVars>>

\* what the history functions and the CRM push leave alone
offHistory == <<mapVars, billVars, manVars, sessVars>>

\* what the field-mapping functions leave alone
offMapping == <<crmVars, history, billVars, manVars, sessVars>>

\* what the billing functions leave alone
offBilling == <<crmVars, history, mapVars, manVars, sessVars>>

\* what a manual upload leaves alone
offManual == <<pc, req, pend, last, history, mapVars, billVars, sessVars>>

\* what the session-timeout middleware leaves alone
offSession == <<crmVars, history, mapVars, billVars, manVars>>

vars == <<carriers, syncs, now, pc, req, pend, last, history, mappings, mjob, mlast,
          mcalls, subscriptions, quotas, blast, bcalls, bjob, ocr, ulast, wall, session,
          slast>>

\* ---- generic helpers ----
KeyOf(r) == <<r.usdot, r.org_id>>

CarrierRows(tbl, u) == SelectSeq(tbl, LAMBDA r : r.usdot = u)

SyncRows(tbl, k) == SelectSeq(tbl, LAMBDA r : KeyOf(r) = k)

HasCarrier(tbl, u) == CarrierRows(tbl, u) # <<>>

HasSync(tbl, k) == SyncRows(tbl, k) # <<>>

EmptyPend == [cUpd |-> {}, cIns |-> <<>>, sUpd |-> {}, sIns |-> <<>>, sDel |-> {}]

NoReq == [op |-> "none"]

\* ---- the model classes ----
\* CRMSyncStatus(usdot, org_id, user_id, sobject_sync_status): created_at,
\* updated_at and subject_synched_at come from their default factories
\* (datetime.now), sobject_id defaults to None.
CRMSyncStatus(usdot, org_id, user_id, status, t) ==
  [usdot |-> usdot, org_id |-> org_id, user_id |-> user_id,
   created_at |-> t, updated_at |-> t,
   sobject_sync_status |-> status,
   subject_synched_at |-> t,
   sobject_id |-> NULL]

\* A validation that leaves the phone at revision 0 whatever the lookup returned.
CarrierData_without_phone(data) ==
  [usdot |-> data.usdot, legal_name |-> data.legal_name, phone |-> 0]

\* CarrierData.model_validate(data): copies every attribute of the lookup result.
CarrierData(data) ==
  [usdot |-> data.usdot, legal_name |-> data.legal_name, phone |-> data.phone]

\* ---- what a session holds and sees ----
\* A loaded row mutated in place stays in the session until a commit, rollback
\* or close.  The session keeps, per row, the attribute writes it has staged
\* (w: attribute -> value); setting an attribute to the value it already has
\* stages nothing.  A select flushes first, so it returns the stored row with
\* the session's own staged writes applied; the UPDATE that reaches the table
\* sets exactly the staged attributes.
CarrierCols == {"legal_name", "phone"}

SyncCols == {"user_id", "created_at", "updated_at", "sobject_sync_status",
             "subject_synched_at", "sobject_id"}

NoWrites == [c \in {} |-> NULL]

CarrierWrites(p, u) ==
  IF \E e \in p.cUpd : e.usdot = u
    THEN (CHOOSE e \in p.cUpd : e.usdot = u).w
    ELSE NoWrites

SyncWrites(p, k) ==
  IF \E e \in p.sUpd : e.key = k
    THEN (CHOOSE e \in p.sUpd : e.key = k).w
    ELSE NoWrites

Overlay(row, w) ==
  [c \in DOMAIN row |-> IF c \in DOMAIN w THEN w[c] ELSE row[c]]

\* select(CarrierData).where(usdot == u).first() on an existing row
SeenCarrier(p, tbl, u) == Overlay(Head(CarrierRows(tbl, u)), CarrierWrites(p, u))

\* select(CRMSyncStatus).where(usdot == .., org_id == ..).first() on an existing row
SeenSync(p, tbl, k) == Overlay(Head(SyncRows(tbl, k)), SyncWrites(p, k))

\* setattr on a loaded row: the attributes whose value changes are staged.
Staged(w, seen, row, cols) ==
  [c \in DOMAIN w \cup { c \in cols : row[c] # seen[c] } |-> row[c]]

StageCarrier(p, tbl, row, org_id) ==
  [usdot |-> row.usdot, org_id |-> org_id,
   w |-> Staged(CarrierWrites(p, row.usdot), SeenCarrier(p, tbl, row.usdot),
                row, CarrierCols)]

StageSync(p, tbl, row) ==
  [key |-> KeyOf(row),
   w |-> Staged(SyncWrites(p, KeyOf(row)), SeenSync(p, tbl, KeyOf(row)),
                row, SyncCols)]

Dirty(E) == { e \in E : DOMAIN e.w # {} }

\* The session holds a mutated sync row that no longer exists in the table:
\* the flush of that UPDATE matches no row and raises.
StaleLeftover(p, tbl) ==
  \E e \in p.sUpd : ~HasSync(tbl, e.key)

\* A session with nothing staged and no call in flight is as good as new.
Fresh(s) == pc[s] = "idle" /\ pend[s] = EmptyPend

\* A call can start on an idle session; the second session is opened only while
\* the first is in use (fresh sessions are interchangeable).  The clock ticks.
CanBegin(s) ==
  /\ pc[s] = "idle"
  /\ s = "s1" \/ ~Fresh("s1")
  /\ ~StaleLeftover(pend[s], syncs)
  /\ now < MaxOps
  /\ now' = now + 1

\* ---- app/crud/carrier_data.py ----
LastIndex(batch, u) ==
  CHOOSE i \in DOMAIN batch :
    batch[i].usdot = u /\ \A j \in DOMAIN batch : j > i => batch[j].usdot # u

\* generate_carrier_records: an existing carrier is overwritten in place with
\* every attribute of the lookup result and appended; a missing one yields a new
\* unpersisted CarrierData.  Returns the record list and the staged overwrites.
generate_carrier_records(p, tbl, batch, org_id) ==
  LET touched == { u \in Usdots : HasCarrier(tbl, u) /\
                                  \E i \in DOMAIN batch : batch[i].usdot = u }
  IN [records |->
        [i \in DOMAIN batch |->
           [kind |-> IF HasCarrier(tbl, batch[i].usdot) THEN "existing" ELSE "new",
            row |-> CarrierData(batch[i])]],
      cUpd |->
        { e \in p.cUpd : e.usdot \notin touched } \cup
        { StageCarrier(p, tbl, CarrierData(batch[LastIndex(batch, u)]), org_id) :
            u \in touched }]

\* The variant of app/crud/crm_object_sync_status.py: a new row starts NOT_SYNCED.
generate_crm_sync_records_not_synced(p, tbl, usdot_numbers, user_id, org_id, t) ==
  [records |->
     [i \in DOMAIN usdot_numbers |->
        IF HasSync(tbl, <<usdot_numbers[i], org_id>>)
          THEN [kind |-> "existing",
                row |-> [SeenSync(p, tbl, <<usdot_numbers[i], org_id>>)
                           EXCEPT !.user_id = user_id, !.updated_at = t]]
          ELSE [kind |-> "new",
                row |-> CRMSyncStatus(usdot_numbers[i], org_id, user_id, "NOT_SYNCED", t)]],
   sUpd |-> p.sUpd]

\* A variant that puts an existing row back to PENDING with no external id.
generate_crm_sync_records_resets_status(p, tbl, usdot_numbers, user_id, org_id, t) ==
  LET touched == { k \in Keys : k[2] = org_id /\ HasSync(tbl, k) /\
                                \E i \in DOMAIN usdot_numbers : usdot_numbers[i] = k[1] }
      Mutated(k) == [SeenSync(p, tbl, k) EXCEPT !.user_id = user_id,
                                                    !.updated_at = t,
                                                    !.sobject_sync_status = "PENDING",
                                                    !.sobject_id = NULL]
  IN [records |->
        [i \in DOMAIN usdot_numbers |->
           IF HasSync(tbl, <<usdot_numbers[i], org_id>>)
             THEN [kind |-> "existing", row |-> Mutated(<<usdot_numbers[i], org_id>>)]
             ELSE [kind |-> "new",
                   row |-> CRMSyncStatus(usdot_numbers[i], org_id, user_id, "PENDING", t)]],
      sUpd |->
        { e \in p.sUpd : e.key \notin touched } \cup
        { StageSync(p, tbl, Mutated(k)) : k \in touched }]

\* generate_crm_sync_records: an existing (usdot, org_id) row gets user_id and
\* updated_at set in place; otherwise a new PENDING row is constructed.
generate_crm_sync_records(p, tbl, usdot_numbers, user_id, org_id, t) ==
  LET touched == { k \in Keys : k[2] = org_id /\ HasSync(tbl, k) /\
                                \E i \in DOMAIN usdot_numbers : usdot_numbers[i] = k[1] }
      Mutated(k) == [SeenSync(p, tbl, k) EXCEPT !.user_id = user_id,
                                                    !.updated_at = t]
  IN [records |->
        [i \in DOMAIN usdot_numbers |->
           IF HasSync(tbl, <<usdot_numbers[i], org_id>>)
             THEN [kind |-> "existing", row |-> Mutated(<<usdot_numbers[i], org_id>>)]
             ELSE [kind |-> "new",
                   row |-> CRMSyncStatus(usdot_numbers[i], org_id, user_id, "PENDING", t)]],
      sUpd |->
        { e \in p.sUpd : e.key \notin touched } \cup
        { StageSync(p, tbl, Mutated(k)) : k \in touched }]

\* A listing that takes the usdots from the sync rows of every organization.
get_carrier_data_of_any_org(p, ctbl, stbl, org_id) ==
  LET dot_numbers == { stbl[i].usdot : i \in DOMAIN stbl }
      found == SelectSeq(ctbl, LAMBDA r : r.usdot \in dot_numbers)
  IN [i \in DOMAIN found |-> Overlay(found[i], CarrierWrites(p, found[i].usdot))]

\* get_carrier_data(db, org_id) without offset and limit: the carriers whose
\* usdot has a sync row of the organization.
get_carrier_data(p, ctbl, stbl, org_id) ==
  LET dot_numbers == { stbl[i].usdot : i \in { j \in DOMAIN stbl : stbl[j].org_id = org_id } }
      found == SelectSeq(ctbl, LAMBDA r : r.usdot \in dot_numbers)
  IN [i \in DOMAIN found |-> Overlay(found[i], CarrierWrites(p, found[i].usdot))]

\* [data.usdot for data in carrier_data if data.lookup_success_flag]
SuccessfulUsdots(batch) ==
  LET ok == SelectSeq(batch, LAMBDA d : d.lookup_success_flag)
  IN [i \in DOMAIN ok |-> ok[i].usdot]

NewRows(records) ==
  LET fresh == SelectSeq(records, LAMBDA r : r.kind = "new")
  IN [i \in DOMAIN fresh |-> fresh[i].row]

\* if carrier_records and sync_records and len(carrier_records) == len(sync_records)
BulkGuard(carrier_records, sync_records) ==
  /\ Len(carrier_records) > 0
  /\ Len(sync_records) > 0
  /\ Len(carrier_records) = Len(sync_records)

\* save_carrier_data_bulk up to its db.commit(): both generate_* calls, then the
\* guard.  When the guard fails the function returns [] without commit or
\* rollback: the in-place mutations stay staged in the session, the new objects
\* were never added.
BulkBegin(s) ==
  /\ CanBegin(s)
  /\ \E br \in BatchRequests, a \in Actors :
       LET batch == [i \in DOMAIN br |-> CarrierDataCreate(br[i], now')]
           user_id == a[1]
           org_id == a[2]
           usdot_numbers == SuccessfulUsdots(batch)
           cg == generate_carrier_records(pend[s], carriers, batch, org_id)
           sg == generate_crm_sync_records(pend[s], syncs, usdot_numbers,
                                           user_id, org_id, now')
           newC == NewRows(cg.records)
           call == [op |-> "bulk", batch |-> batch, user_id |-> user_id,
                    org_id |-> org_id,
                    fresh |-> { u \in Usdots : ~HasSync(syncs, <<u, org_id>>) }]
       IN IF BulkGuard(cg.records, sg.records)
            THEN /\ pend' = [pend EXCEPT ![s] =
                               [cUpd |-> Dirty(cg.cUpd),
                                cIns |-> [i \in DOMAIN newC |->
                                            [row |-> newC[i], org_id |-> org_id]],
                                sUpd |-> Dirty(sg.sUpd),
                                sIns |-> NewRows(sg.records),
                                sDel |-> {}]]
                 /\ pc' = [pc EXCEPT ![s] = "commit"]
                 /\ req' = [req EXCEPT ![s] = call]
                 /\ last' = last
            ELSE /\ pend' = [pend EXCEPT ![s] =
                               [cUpd |-> Dirty(cg.cUpd), cIns |-> <<>>,
                                sUpd |-> Dirty(sg.sUpd), sIns |-> <<>>, sDel |-> {}]]
                 /\ pc' = pc
                 /\ req' = req
                 /\ last' = [session |-> s, call |-> call, kind |-> "empty", rows |-> <<>>]
  /\ UNCHANGED <<carriers, syncs>>
  /\ UNCHANGED aux

\* ---- app/crud/crm_sync_status.py ----
\* The (status, external id) pairs the CRM-push callers pass: an id only with a
\* successful push.
PushOutcomes ==
  { o \in {"SUCCESS", "FAILED"} \X (ExternalIds \cup {NULL}) :
      o[2] # NULL <=> o[1] = "SUCCESS" }

\* The status the call finds on the row, "absent" when there is no row.
StatusBefore(p, tbl, k) ==
  IF HasSync(tbl, k) THEN SeenSync(p, tbl, k).sobject_sync_status ELSE "absent"

\* An overwrite that keeps the external id when none is given.
UpsertedRow_keeps_id(row, user_id, sync_status, sobject_id, current_time) ==
  [row EXCEPT !.user_id = user_id,
              !.updated_at = current_time,
              !.sobject_sync_status = sync_status,
              !.subject_synched_at = current_time,
              !.sobject_id = IF sobject_id # NULL THEN sobject_id ELSE @]

\* upsert_crm_sync_status, existing row: overwritten in place.
UpsertedRow(row, user_id, sync_status, sobject_id, current_time) ==
  [row EXCEPT !.user_id = user_id,
              !.updated_at = current_time,
              !.sobject_sync_status = sync_status,
              !.subject_synched_at = current_time,
              !.sobject_id = sobject_id]

\* upsert_crm_sync_status up to its db.commit().
UpsertBegin(s) ==
  /\ CanBegin(s)
  /\ \E u \in Usdots, a \in Actors, o \in PushOutcomes :
       LET k == <<u, a[2]>>
       IN /\ req' = [req EXCEPT ![s] = [op |-> "upsert", key |-> k, user_id |-> a[1],
                                        sync_status |-> o[1], sobject_id |-> o[2],
                                        before |-> StatusBefore(pend[s], syncs, k)]]
          /\ IF HasSync(syncs, k)
               THEN pend' = [pend EXCEPT ![s].sUpd =
                               Dirty({ e \in @ : e.key # k } \cup
                                     { StageSync(pend[s], syncs,
                                                 UpsertedRow(SeenSync(pend[s], syncs, k),
                                                             a[1], o[1], o[2], now')) })]
               ELSE pend' = [pend EXCEPT ![s].sIns =
                               Append(@, [CRMSyncStatus(u, a[2], a[1], o[1], now')
                                            EXCEPT !.sobject_id = o[2]])]
  /\ pc' = [pc EXCEPT ![s] = "commit"]
  /\ UNCHANGED <<carriers, syncs, last>>
  /\ UNCHANGED aux

\* An update that stamps created_at as well.
UpdatedRow_restamps(row, user_id, sync_status, sobject_id, t) ==
  [row EXCEPT !.user_id = user_id,
              !.created_at = t,
              !.updated_at = t,
              !.sobject_sync_status = sync_status,
              !.subject_synched_at = t,
              !.sobject_id = IF sobject_id # NULL THEN sobject_id ELSE @]

\* update_crm_sync_status, existing row: sets user_id, updated_at, status and
\* synched-at, and the external id only `if sobject_id`.
UpdatedRow(row, user_id, sync_status, sobject_id, t) ==
  [row EXCEPT !.user_id = user_id,
              !.updated_at = t,
              !.sobject_sync_status = sync_status,
              !.subject_synched_at = t,
              !.sobject_id = IF sobject_id # NULL THEN sobject_id ELSE @]

\* update_crm_sync_status up to its db.commit(): returns None when the row is missing.
UpdateBegin(s) ==
  /\ CanBegin(s)
  /\ \E u \in Usdots, a \in Actors, o \in PushOutcomes :
       LET k == <<u, a[2]>>
           call == [op |-> "update", key |-> k, user_id |-> a[1],
                    sync_status |-> o[1], sobject_id |-> o[2],
                    before |-> StatusBefore(pend[s], syncs, k)]
       IN IF HasSync(syncs, k)
            THEN /\ pend' = [pend EXCEPT ![s].sUpd =
                               Dirty({ e \in @ : e.key # k } \cup
                                     { StageSync(pend[s], syncs,
                                                 UpdatedRow(SeenSync(pend[s], syncs, k),
                                                            a[1], o[1], o[2], now')) })]
                 /\ pc' = [pc EXCEPT ![s] = "commit"]
                 /\ req' = [req EXCEPT ![s] = call]
                 /\ last' = last
            ELSE /\ pend' = pend
                 /\ pc' = pc
                 /\ req' = req
                 /\ last' = [session |-> s, call |-> call, kind |-> "None", rows |-> <<>>]
  /\ UNCHANGED <<carriers, syncs>>
  /\ UNCHANGED aux

\* get_crm_sync_status_by_usdot: the row, or None.
get_crm_sync_status_by_usdot(p, tbl, k) ==
  IF HasSync(tbl, k) /\ k \notin p.sDel THEN SeenSync(p, tbl, k) ELSE NULL

\* The orders in which a select without ORDER BY can return the rows at the
\* given positions of a table: the database is free to choose.
AnyOrder(tbl, idx) ==
  { [i \in 1..Cardinality(idx) |-> tbl[f[i]]] :
      f \in { g \in [1..Cardinality(idx) -> idx] :
                \A i, j \in 1..Cardinality(idx) : i # j => g[i] # g[j] } }

\* get_crm_sync_status_by_org(db, org_id, sync_status): the results the query
\* can give.  `if sync_status:` adds the status condition; the query has no
\* ORDER BY.
get_crm_sync_status_by_org(tbl, org_id, sync_status) ==
  AnyOrder(tbl, { i \in DOMAIN tbl :
                    /\ tbl[i].org_id = org_id
                    /\ sync_status # NULL => tbl[i].sobject_sync_status = sync_status })

\* delete_crm_sync_status up to its db.commit(): returns False when the row is
\* missing, otherwise marks the loaded row deleted.
DeleteBegin(s) ==
  /\ CanBegin(s)
  /\ \E k \in Keys :
       LET call == [op |-> "delete", key |-> k, existed |-> HasSync(syncs, k)]
       IN IF HasSync(syncs, k)
            THEN /\ pend' = [pend EXCEPT ![s].sDel = @ \cup {k},
                                         ![s].sUpd = { e \in @ : e.key # k }]
                 /\ pc' = [pc EXCEPT ![s] = "commit"]
                 /\ req' = [req EXCEPT ![s] = call]
                 /\ last' = last
            ELSE /\ pend' = pend
                 /\ pc' = pc
                 /\ req' = req
                 /\ last' = [session |-> s, call |-> call, kind |-> "False", rows |-> <<>>]
  /\ UNCHANGED <<carriers, syncs>>
  /\ UNCHANGED aux

\* ---- db.commit() / db.rollback() / session close ----
NoDuplicates(keys) ==
  \A i, j \in DOMAIN keys : i # j => keys[i] # keys[j]

\* carrierdata.usdot is the primary key: an INSERT of a usdot already stored, or
\* twice in one flush, raises IntegrityError.
CarrierPrimaryKey(tbl, ins) ==
  /\ NoDuplicates([i \in DOMAIN ins |-> ins[i].usdot])
  /\ \A i \in DOMAIN ins : ~HasCarrier(tbl, ins[i].usdot)

\* A table whose primary key is usdot alone within one flush and unchecked
\* against the stored rows.
SyncPrimaryKey_unchecked(tbl, ins) ==
  NoDuplicates([i \in DOMAIN ins |-> KeyOf(ins[i])])

\* (usdot, org_id) is the composite primary key of sobject_sync_status.
SyncPrimaryKey(tbl, ins) ==
  /\ NoDuplicates([i \in DOMAIN ins |-> KeyOf(ins[i])])
  /\ \A i \in DOMAIN ins : ~HasSync(tbl, KeyOf(ins[i]))

\* usdot of sobject_sync_status references carrierdata.usdot.
ForeignKeyHolds(ctbl, ins) ==
  \A i \in DOMAIN ins : HasCarrier(ctbl, ins[i].usdot)

\* UPDATE ... SET <staged attributes> WHERE <primary key>
UpdateCarrier(row, p) == Overlay(row, CarrierWrites(p, row.usdot))

UpdateSync(row, p) == Overlay(row, SyncWrites(p, KeyOf(row)))

CarrierInserts(p) == [i \in DOMAIN p.cIns |-> p.cIns[i].row]

\* The tables after the session's staged changes are written.
CommittedCarriers(p, tbl) ==
  [i \in DOMAIN tbl |-> UpdateCarrier(tbl[i], p)] \o CarrierInserts(p)

CommittedSyncs(p, tbl) ==
  SelectSeq([i \in DOMAIN tbl |-> UpdateSync(tbl[i], p)] \o p.sIns,
            LAMBDA r : KeyOf(r) \notin p.sDel)

FlushSucceeds(p, ctbl, stbl) ==
  /\ CarrierPrimaryKey(ctbl, CarrierInserts(p))
  /\ SyncPrimaryKey(stbl, p.sIns)
  /\ ~StaleLeftover(p, stbl)

\* What the handler returns after commit and refresh.
Returned(r, ctbl, stbl) ==
  CASE r.op = "bulk" ->
         [kind |-> "value",
          rows |-> [i \in DOMAIN r.batch |-> Head(CarrierRows(ctbl, r.batch[i].usdot))]]
    [] r.op = "delete" -> [kind |-> "True", rows |-> <<>>]
    [] OTHER ->
         IF HasSync(stbl, r.key)
           THEN [kind |-> "value", rows |-> <<Head(SyncRows(stbl, r.key))>>]
           ELSE [kind |-> "raised", rows |-> <<>>]

Completed(s, out) ==
  [session |-> s, call |-> req[s], kind |-> out.kind, rows |-> out.rows]

CommitOK(s) ==
  /\ pc[s] = "commit"
  /\ FlushSucceeds(pend[s], carriers, syncs)
  /\ carriers' = CommittedCarriers(pend[s], carriers)
  /\ syncs' = CommittedSyncs(pend[s], syncs)
  /\ last' = Completed(s, Returned(req[s], carriers', syncs'))
  /\ pend' = [pend EXCEPT ![s] = EmptyPend]
  /\ pc' = [pc EXCEPT ![s] = "idle"]
  /\ req' = [req EXCEPT ![s] = NoReq]
  /\ UNCHANGED now
  /\ UNCHANGED aux

\* A failed commit that raises without rolling back the UPDATEs its flush had
\* written.
CommitFails_without_rollback(s) ==
  /\ pc[s] = "commit"
  /\ \/ ~FlushSucceeds(pend[s], carriers, syncs)
     \/ ~ForeignKeyHolds(CommittedCarriers(pend[s], carriers), pend[s].sIns)
  /\ carriers' = [i \in DOMAIN carriers |-> UpdateCarrier(carriers[i], pend[s])]
  /\ syncs' = [i \in DOMAIN syncs |-> UpdateSync(syncs[i], pend[s])]
  /\ last' = Completed(s, [kind |-> "raised", rows |-> <<>>])
  /\ pend' = [pend EXCEPT ![s] = EmptyPend]
  /\ pc' = [pc EXCEPT ![s] = "idle"]
  /\ req' = [req EXCEPT ![s] = NoReq]
  /\ UNCHANGED now
  /\ UNCHANGED aux

\* The flush raises (key conflict, stale row, or a foreign key the database
\* enforces): the except branch rolls the transaction back and re-raises.
CommitFails(s) ==
  /\ pc[s] = "commit"
  /\ \/ ~FlushSucceeds(pend[s], carriers, syncs)
     \/ ~ForeignKeyHolds(CommittedCarriers(pend[s], carriers), pend[s].sIns)
  /\ last' = Completed(s, [kind |-> "raised", rows |-> <<>>])
  /\ pend' = [pend EXCEPT ![s] = EmptyPend]
  /\ pc' = [pc EXCEPT ![s] = "idle"]
  /\ req' = [req EXCEPT ![s] = NoReq]
  /\ UNCHANGED <<carriers, syncs, now>>
  /\ UNCHANGED aux

\* A call on a session whose staged UPDATE targets a row that is gone: the
\* autoflush before the first select raises and the transaction is rolled back.
FlushFails(s) ==
  /\ pc[s] = "idle"
  /\ StaleLeftover(pend[s], syncs)
  /\ last' = [session |-> s, call |-> [op |-> "flush"], kind |-> "raised", rows |-> <<>>]
  /\ pend' = [pend EXCEPT ![s] = EmptyPend]
  /\ UNCHANGED <<carriers, syncs, now, pc, req>>
  /\ UNCHANGED aux

\* The request ends and its session is closed: staged changes are discarded.
Close(s) ==
  /\ pc[s] = "idle"
  /\ pend[s] # EmptyPend
  /\ pend' = [pend EXCEPT ![s] = EmptyPend]
  /\ UNCHANGED <<carriers, syncs, now, pc, req, last>>
  /\ UNCHANGED aux

\* ---- app/crud/crm_sync_history.py ----
\* CRMSyncHistory(...): the id is the table's autoincrement primary key.
CRMSyncHistory(id, usdot, sync_status, user_id, org_id, crm_object_id, t) ==
  [id |-> id, usdot |-> usdot, sync_status |-> sync_status,
   sync_timestamp |-> t, crm_object_id |-> crm_object_id,
   user_id |-> user_id, org_id |-> org_id]

\* A record that takes the place of the carrier's latest record when the
\* carrier has one.
create_crm_sync_history_record_latest_only(h, usdot, sync_status, user_id, org_id, crm_object_id, t) ==
  SelectSeq(h, LAMBDA r : r.usdot # usdot)
    \o <<CRMSyncHistory(Len(h) + 1, usdot, sync_status, user_id, org_id,
                        crm_object_id, t)>>

\* create_crm_sync_history_record: db.add(history_record); db.commit().
create_crm_sync_history_record(h, usdot, sync_status, user_id, org_id, crm_object_id, t) ==
  Append(h, CRMSyncHistory(Len(h) + 1, usdot, sync_status, user_id, org_id,
                           crm_object_id, t))

\* A call of create_crm_sync_history_record on session s.  No select precedes
\* its commit; the commit writes what the session had staged as well.
CreateHistory(s) ==
  /\ CanBegin(s)
  /\ \E u \in Usdots, a \in Actors, o \in PushOutcomes :
       LET call == [op |-> "history", usdot |-> u, user_id |-> a[1],
                    org_id |-> a[2], status |-> o[1], t |-> now']
       IN /\ history' = create_crm_sync_history_record(history, u, o[1], a[1],
                                                       a[2], o[2], now')
          /\ last' = [session |-> s, call |-> call, kind |-> "value",
                      rows |-> <<history'[Len(history')]>>]
  /\ carriers' = CommittedCarriers(pend[s], carriers)
  /\ syncs' = CommittedSyncs(pend[s], syncs)
  /\ pend' = [pend EXCEPT ![s] = EmptyPend]
  /\ UNCHANGED <<pc, req>>
  /\ UNCHANGED offHistory

\* ---- app/crud/crm_object_sync_status.py ----
\* update_crm_sync_status: the row of (usdot, org_id) is overwritten, or
\* created when there is none; db.commit().
crm_object_update_crm_sync_status(tbl, usdot, org_id, user_id, crm_sync_status, crm_object_id, t) ==
  IF HasSync(tbl, <<usdot, org_id>>)
    THEN [i \in DOMAIN tbl |->
            IF KeyOf(tbl[i]) = <<usdot, org_id>>
              THEN [tbl[i] EXCEPT !.user_id = user_id,
                                  !.updated_at = t,
                                  !.sobject_sync_status = crm_sync_status,
                                  !.sobject_id = crm_object_id,
                                  !.subject_synched_at = t]
              ELSE tbl[i]]
    ELSE Append(tbl, [usdot |-> usdot, org_id |-> org_id, user_id |-> user_id,
                      created_at |-> t, updated_at |-> t,
                      sobject_sync_status |-> crm_sync_status,
                      subject_synched_at |-> t,
                      sobject_id |-> crm_object_id])

\* ---- app/routes/salesforce.py: upload_carriers_to_salesforce ----
\* What Salesforce answers for the carriers posted: the request fails as a
\* whole, or the composite response carries hasErrors and a result for some of
\* the records (an error list, or an id), or every record was created.
ItemResults == {"errors", "id", "absent"}

Responses(posted) ==
  { r \in [kind : {"http_error", "has_errors", "ok"}, results : [posted -> ItemResults]] :
      /\ r.kind = "http_error" => \A u \in posted : r.results[u] = "absent"
      /\ r.kind = "has_errors" => \E u \in posted : r.results[u] = "errors"
      /\ r.kind = "ok" => \A u \in posted : r.results[u] = "id" }

\* The status the route records for one carrier, "none" when it records nothing.
ItemOutcome(resp, u) ==
  CASE resp.kind = "http_error" -> "FAILED"
    [] resp.kind = "has_errors" ->
         CASE resp.results[u] = "errors" -> "FAILED"
           [] resp.results[u] = "id" -> "SUCCESS"
           [] OTHER -> "none"
    [] OTHER -> IF resp.results[u] = "id" THEN "SUCCESS" ELSE "none"

\* app.crud.crm_object_sync_history.create_sync_history_record, the function the
\* route imports: it appends one record as create_crm_sync_history_record does.
create_sync_history_record(h, usdot, crm_sync_status, user_id, org_id, crm_object_id, t) ==
  create_crm_sync_history_record(h, usdot, crm_sync_status, user_id, org_id,
                                 crm_object_id, t)

\* What the database does with the two writes made for one carrier: both
\* commits succeed, or the commit of the history record raises, or the commit
\* of the status update raises.
Faults == {"none", "history", "status"}

\* The two writes in one transaction: a failed status update takes the history
\* record back with it.
RecordItem_single_transaction(db, u, o, fault, user_id, org_id, t) ==
  LET id == IF o = "SUCCESS" THEN "acc_001" ELSE NULL
  IN IF o = "none" \/ fault # "none"
       THEN db
       ELSE [history |-> create_sync_history_record(
                           db.history, u, o, user_id, org_id, id, t),
             syncs |-> crm_object_update_crm_sync_status(
                           db.syncs, u, org_id, user_id, o, id, t)]

\* try: create_sync_history_record(...); update_crm_sync_status(...)
\* except Exception: logger.error(...)
\* Each function commits on its own and rolls back what it was writing when its
\* commit raises; an exception of the first skips the second.
RecordItem(db, u, o, fault, user_id, org_id, t) ==
  LET id == IF o = "SUCCESS" THEN "acc_001" ELSE NULL
  IN CASE o = "none" \/ fault = "history" -> db
       [] fault = "status" ->
            [history |-> create_sync_history_record(
                           db.history, u, o, user_id, org_id, id, t),
             syncs |-> db.syncs]
       [] OTHER ->
            [history |-> create_sync_history_record(
                           db.history, u, o, user_id, org_id, id, t),
             syncs |-> crm_object_update_crm_sync_status(
                           db.syncs, u, org_id, user_id, o, id, t)]

\* Loops that end at the first carrier whose push failed or whose writes raised.
RECURSIVE RecordResults_stops_at_failure(_, _, _, _, _, _, _)
RecordResults_stops_at_failure(db, cs, resp, faults, user_id, org_id, t) ==
  IF cs = <<>>
    THEN db
    ELSE IF ItemOutcome(resp, Head(cs)) = "FAILED" \/ faults[Head(cs)] # "none"
           THEN RecordItem(db, Head(cs), ItemOutcome(resp, Head(cs)), faults[Head(cs)],
                           user_id, org_id, t)
           ELSE RecordResults_stops_at_failure(
                  RecordItem(db, Head(cs), ItemOutcome(resp, Head(cs)), faults[Head(cs)],
                             user_id, org_id, t),
                  Tail(cs), resp, faults, user_id, org_id, t)

\* The loops over the carriers: a history record, then the status update.
RECURSIVE RecordResults(_, _, _, _, _, _, _)
RecordResults(db, cs, resp, faults, user_id, org_id, t) ==
  IF cs = <<>>
    THEN db
    ELSE RecordResults(
           RecordItem(db, Head(cs), ItemOutcome(resp, Head(cs)), faults[Head(cs)],
                      user_id, org_id, t),
           Tail(cs), resp, faults, user_id, org_id, t)

\* carriers = select(CarrierData).where(usdot in carriers_usdot)
PostedCarriers(ctbl, carriers_usdot) ==
  LET found == SelectSeq(ctbl, LAMBDA r : r.usdot \in carriers_usdot)
  IN [i \in DOMAIN found |-> found[i].usdot]

\* The faults that can show for an answer: a write that is not made cannot fail.
FaultsFor(posted, resp) ==
  { f \in [posted -> Faults] :
      \A u \in posted : ItemOutcome(resp, u) = "none" => f[u] = "none" }

\* One request to POST /salesforce/upload_carriers, on the session of the
\* request: 404 when none of the carriers is stored, else the carriers are
\* posted and the answer is recorded carrier by carrier.
upload_carriers_to_salesforce(s) ==
  /\ CanBegin(s)
  /\ pend[s] = EmptyPend
  /\ \E us \in (SUBSET Usdots) \ {{}}, a \in Actors :
       LET cs == PostedCarriers(carriers, us)
           posted == { cs[i] : i \in DOMAIN cs }
       IN IF cs = <<>>
            THEN /\ last' = [session |-> s,
                             call |-> [op |-> "push", posted |-> cs, user_id |-> a[1],
                                       org_id |-> a[2], t |-> now'],
                             kind |-> "404", rows |-> <<>>]
                 /\ UNCHANGED <<syncs, history>>
            ELSE \E resp \in Responses(posted) :
                   \E faults \in FaultsFor(posted, resp) :
                     LET db == RecordResults([history |-> history, syncs |-> syncs],
                                             cs, resp, faults, a[1], a[2], now')
                     IN /\ history' = db.history
                        /\ syncs' = db.syncs
                        /\ last' = [session |-> s,
                                    call |-> [op |-> "push", posted |-> cs,
                                              user_id |-> a[1], org_id |-> a[2],
                                              t |-> now', resp |-> resp,
                                              faults |-> faults],
                                    kind |-> resp.kind, rows |-> <<>>]
  /\ UNCHANGED <<carriers, pc, req, pend>>
  /\ UNCHANGED offHistory

\* ---- app/crud/salesforce_field_mapping.py ----
CarrierFields == {"legal_name", "phone"}
SalesforceFields == {"Name", "Phone"}
FieldTypes == {"text", "number"}

\* default_mappings of create_default_field_mappings, for the carrier fields of
\* the model.
DefaultMappings ==
  <<[carrier_field |-> "legal_name", salesforce_field |-> "Name", field_type |-> "text"],
    [carrier_field |-> "phone", salesforce_field |-> "Phone", field_type |-> "text"]>>

\* None, where a row is expected: no row has id 0.
NoMapping == [id |-> 0]

\* select(SalesforceFieldMapping).where(org_id == ..., carrier_field == ...)
MappingRows(tbl, org_id, carrier_field) ==
  { tbl[i] : i \in { j \in DOMAIN tbl :
                       tbl[j].org_id = org_id /\ tbl[j].carrier_field = carrier_field } }

\* .first() of that select: one of the matching rows (the query has no ORDER
\* BY), or None.
FirstMapping(tbl, org_id, carrier_field) ==
  IF MappingRows(tbl, org_id, carrier_field) = {}
    THEN {NoMapping}
    ELSE MappingRows(tbl, org_id, carrier_field)

SalesforceFieldMapping(id, org_id, carrier_field, salesforce_field, field_type) ==
  [id |-> id, org_id |-> org_id, carrier_field |-> carrier_field,
   salesforce_field |-> salesforce_field, is_active |-> TRUE,
   field_type |-> field_type]

\* UPDATE salesforcefieldmapping SET <attributes that differ from the loaded
\* row> WHERE id = <the loaded row's id>
UpdateMapping(tbl, loaded, target) ==
  [i \in DOMAIN tbl |->
     IF tbl[i].id = loaded.id
       THEN [tbl[i] EXCEPT
               !.salesforce_field =
                  IF target.salesforce_field # loaded.salesforce_field
                    THEN target.salesforce_field ELSE @,
               !.field_type =
                  IF target.field_type # loaded.field_type THEN target.field_type ELSE @,
               !.is_active =
                  IF target.is_active # loaded.is_active THEN target.is_active ELSE @]
       ELSE tbl[i]]

\* get_field_mappings_by_org: the active rows of the organization.
get_field_mappings_by_org(tbl, org_id) ==
  { tbl[i] : i \in { j \in DOMAIN tbl : tbl[j].org_id = org_id /\ tbl[j].is_active } }

\* The row the select found had been soft-deleted.
WasInactive(existing_mapping) ==
  IF existing_mapping = NoMapping THEN FALSE ELSE ~existing_mapping.is_active

\* A save that takes a soft-deleted row for no row and inserts a new one.
save_field_mapping_ignores_inactive(tbl, existing_mapping, org_id, carrier_field, salesforce_field, field_type) ==
  IF existing_mapping # NoMapping /\ ~WasInactive(existing_mapping)
    THEN UpdateMapping(tbl, existing_mapping,
                       [existing_mapping EXCEPT !.salesforce_field = salesforce_field,
                                                !.field_type = field_type,
                                                !.is_active = TRUE])
    ELSE Append(tbl, SalesforceFieldMapping(Len(tbl) + 1, org_id, carrier_field,
                                            salesforce_field, field_type))

\* A save that adds a row whether or not the mapping exists.
save_field_mapping_always_inserts(tbl, existing_mapping, org_id, carrier_field, salesforce_field, field_type) ==
  Append(tbl, SalesforceFieldMapping(Len(tbl) + 1, org_id, carrier_field,
                                     salesforce_field, field_type))

\* save_field_mapping from the result of its select to the committed table.
save_field_mapping(tbl, existing_mapping, org_id, carrier_field, salesforce_field, field_type) ==
  IF existing_mapping # NoMapping
    THEN UpdateMapping(tbl, existing_mapping,
                       [existing_mapping EXCEPT !.salesforce_field = salesforce_field,
                                                !.field_type = field_type,
                                                !.is_active = TRUE])
    ELSE Append(tbl, SalesforceFieldMapping(Len(tbl) + 1, org_id, carrier_field,
                                            salesforce_field, field_type))

\* delete_field_mapping from the row it found to the committed table.
delete_field_mapping(tbl, mapping) ==
  UpdateMapping(tbl, mapping, [mapping EXCEPT !.is_active = FALSE])

MappingCall(op, org_id, m, existing, rest) ==
  [op |-> op, org_id |-> org_id, carrier_field |-> m.carrier_field,
   salesforce_field |-> m.salesforce_field, field_type |-> m.field_type,
   existing |-> existing, rest |-> rest]

MappingIdle(s) == mjob[s] = NoReq

\* The call repeats the save that completed just before it, argument for
\* argument.
RepeatsSave(prev, call) ==
  /\ prev.op = "save"
  /\ call.op = "save"
  /\ prev.org_id = call.org_id
  /\ prev.carrier_field = call.carrier_field
  /\ prev.salesforce_field = call.salesforce_field
  /\ prev.field_type = call.field_type

\* A field-mapping call can start on a session that has none in flight.
MappingBegin(s) ==
  /\ MappingIdle(s)
  /\ mcalls < MaxMappingCalls
  /\ mcalls' = mcalls + 1

\* save_field_mapping up to its db.commit().
SaveSelect(s) ==
  /\ MappingBegin(s)
  /\ \E org_id \in Orgs, cf \in CarrierFields, sf \in SalesforceFields, ft \in FieldTypes :
       \E existing \in FirstMapping(mappings, org_id, cf) :
         mjob' = [mjob EXCEPT ![s] =
                    MappingCall("save", org_id,
                                [carrier_field |-> cf, salesforce_field |-> sf,
                                 field_type |-> ft],
                                existing, <<>>)]
  /\ UNCHANGED <<mappings, mlast>>
  /\ UNCHANGED offMapping

\* create_default_field_mappings up to the db.commit() of its first save.
DefaultsSelect(s) ==
  /\ MappingBegin(s)
  /\ \E org_id \in Orgs :
       \E existing \in FirstMapping(mappings, org_id, Head(DefaultMappings).carrier_field) :
         mjob' = [mjob EXCEPT ![s] =
                    MappingCall("defaults", org_id, Head(DefaultMappings),
                                existing, Tail(DefaultMappings))]
  /\ UNCHANGED <<mappings, mlast>>
  /\ UNCHANGED offMapping

\* db.commit() of a save_field_mapping; create_default_field_mappings goes on
\* to the select of its next save.
SaveCommit(s) ==
  /\ mjob[s].op \in {"save", "defaults"}
  /\ mappings' = save_field_mapping(mappings, mjob[s].existing, mjob[s].org_id,
                                    mjob[s].carrier_field, mjob[s].salesforce_field,
                                    mjob[s].field_type)
  /\ IF mjob[s].rest = <<>>
       THEN /\ mjob' = [mjob EXCEPT ![s] = NoReq]
            /\ mlast' = [op |-> mjob[s].op, org_id |-> mjob[s].org_id,
                         carrier_field |-> mjob[s].carrier_field,
                         salesforce_field |-> mjob[s].salesforce_field,
                         field_type |-> mjob[s].field_type,
                         existing |-> (mjob[s].existing # NoMapping),
                         rest |-> RepeatsSave(mlast, mjob[s]),
                         reactivated |-> WasInactive(mjob[s].existing)]
       ELSE /\ \E existing \in FirstMapping(mappings', mjob[s].org_id,
                                            Head(mjob[s].rest).carrier_field) :
                 mjob' = [mjob EXCEPT ![s] =
                            MappingCall("defaults", mjob[s].org_id, Head(mjob[s].rest),
                                        existing, Tail(mjob[s].rest))]
            /\ mlast' = mlast
  /\ UNCHANGED mcalls
  /\ UNCHANGED offMapping

\* delete_field_mapping up to its db.commit(); False when no row is found.
DeleteSelect(s) ==
  /\ MappingBegin(s)
  /\ \E org_id \in Orgs, cf \in CarrierFields :
       \E mapping \in FirstMapping(mappings, org_id, cf) :
         IF mapping = NoMapping
           THEN /\ mlast' = [op |-> "delete", org_id |-> org_id, carrier_field |-> cf,
                             result |-> FALSE]
                /\ mjob' = mjob
           ELSE /\ mjob' = [mjob EXCEPT ![s] =
                              [op |-> "delete", org_id |-> org_id, carrier_field |-> cf,
                               existing |-> mapping]]
                /\ mlast' = mlast
  /\ UNCHANGED mappings
  /\ UNCHANGED offMapping

DeleteCommit(s) ==
  /\ mjob[s].op = "delete"
  /\ mappings' = delete_field_mapping(mappings, mjob[s].existing)
  /\ mlast' = [op |-> "delete", org_id |-> mjob[s].org_id,
               carrier_field |-> mjob[s].carrier_field, result |-> TRUE]
  /\ mjob' = [mjob EXCEPT ![s] = NoReq]
  /\ UNCHANGED mcalls
  /\ UNCHANGED offMapping

\* ---- app/crud/subscription.py, app/routes/billing.py ----
\* The first two plans of initialize_default_plans; a request may name a plan
\* that does not exist.
SubscriptionPlans ==
  <<[id |-> 1, name |-> "Free", price_cents |-> 0, monthly_quota |-> 20],
    [id |-> 2, name |-> "Basic", price_cents |-> 999, monthly_quota |-> 150]>>

PlanIds == {1, 2, 3}

\* The users and organizations stored are those of the actors; u9 is unknown.
Subscribers == Actors \cup {<<"u9", "orgA">>}

NoRow == [id |-> 0]

\* db.get(SubscriptionPlan, plan_id)
get_plan_by_id(plan_id) ==
  IF \E i \in DOMAIN SubscriptionPlans : SubscriptionPlans[i].id = plan_id
    THEN SubscriptionPlans[CHOOSE i \in DOMAIN SubscriptionPlans :
                             SubscriptionPlans[i].id = plan_id]
    ELSE NoRow

\* A lookup that takes the cancelled subscriptions for the active ones.
get_user_subscription_cancelled(tbl, user_id, org_id) ==
  LET found == SelectSeq(tbl, LAMBDA r : /\ r.user_id = user_id
                                         /\ r.org_id = org_id
                                         /\ r.status = "cancelled")
  IN IF found = <<>> THEN NoRow ELSE found[1]

\* get_user_subscription: the active subscription of the user and org, or None.
get_user_subscription(tbl, user_id, org_id) ==
  LET found == SelectSeq(tbl, LAMBDA r : /\ r.user_id = user_id
                                         /\ r.org_id = org_id
                                         /\ r.status = "active")
  IN IF found = <<>> THEN NoRow ELSE found[1]

Subscription(id, user_id, org_id, plan_id) ==
  [id |-> id, user_id |-> user_id, org_id |-> org_id, plan_id |-> plan_id,
   status |-> "active"]

\* create_usage_quota_for_period without carryover
UsageQuota(id, subscription, plan) ==
  [id |-> id, subscription_id |-> subscription.id, user_id |-> subscription.user_id,
   org_id |-> subscription.org_id, quota_limit |-> plan.monthly_quota,
   quota_used |-> 0, quota_remaining |-> plan.monthly_quota]

\* create_subscription from db.add(subscription) on: the subscription and its
\* usage quota are committed, then the log line raises.
PersistSubscription(db, user_id, org_id, plan_id) ==
  LET subscription == Subscription(Len(db.subscriptions) + 1, user_id, org_id, plan_id)
  IN [status_code |-> "500",
      subscriptions |-> Append(db.subscriptions, subscription),
      quotas |-> Append(db.quotas,
                        UsageQuota(Len(db.quotas) + 1, subscription,
                                   get_plan_by_id(plan_id)))]

\* create_subscription: the status of the HTTPException it raises and the
\* tables it leaves.  After both commits the log line names user_id, which the
\* function does not define: the NameError is caught and reported as 500.
create_subscription(db, user_id, org_id, plan_id) ==
  CASE user_id \notin { a[1] : a \in Actors } ->
         [status_code |-> "404", subscriptions |-> db.subscriptions, quotas |-> db.quotas]
    [] get_plan_by_id(plan_id) = NoRow ->
         [status_code |-> "404", subscriptions |-> db.subscriptions, quotas |-> db.quotas]
    [] get_user_subscription(db.subscriptions, user_id, org_id) # NoRow ->
         [status_code |-> "400", subscriptions |-> db.subscriptions, quotas |-> db.quotas]
    [] OTHER -> PersistSubscription(db, user_id, org_id, plan_id)

\* POST /billing/subscribe/{plan_id}; stripe_ok tells whether the Stripe calls
\* made for a paid plan succeed.
subscribe_to_plan(db, user_id, org_id, plan_id, stripe_ok) ==
  CASE get_user_subscription(db.subscriptions, user_id, org_id) # NoRow ->
         [status_code |-> "400", subscriptions |-> db.subscriptions, quotas |-> db.quotas]
    [] get_plan_by_id(plan_id) = NoRow ->
         [status_code |-> "404", subscriptions |-> db.subscriptions, quotas |-> db.quotas]
    [] get_plan_by_id(plan_id).price_cents # 0 /\ ~stripe_ok ->
         [status_code |-> "400", subscriptions |-> db.subscriptions, quotas |-> db.quotas]
    [] OTHER -> create_subscription(db, user_id, org_id, plan_id)

BillingBegin ==
  /\ bcalls < MaxBillingCalls
  /\ bcalls' = bcalls + 1

BillingDb == [subscriptions |-> subscriptions, quotas |-> quotas]

CreateSubscription ==
  /\ BillingBegin
  /\ \E a \in Subscribers, plan_id \in PlanIds :
       LET out == create_subscription(BillingDb, a[1], a[2], plan_id)
       IN /\ subscriptions' = out.subscriptions
          /\ quotas' = out.quotas
          /\ blast' = [n |-> bcalls', op |-> "create_subscription", user_id |-> a[1],
                       org_id |-> a[2], plan_id |-> plan_id,
                       status_code |-> out.status_code]
  /\ UNCHANGED bjob
  /\ UNCHANGED offBilling

SubscribeToPlan ==
  /\ BillingBegin
  /\ \E a \in Actors, plan_id \in PlanIds, stripe_ok \in BOOLEAN :
       LET out == subscribe_to_plan(BillingDb, a[1], a[2], plan_id, stripe_ok)
       IN /\ subscriptions' = out.subscriptions
          /\ quotas' = out.quotas
          /\ blast' = [n |-> bcalls', op |-> "subscribe_to_plan", user_id |-> a[1],
                       org_id |-> a[2], plan_id |-> plan_id,
                       status_code |-> out.status_code]
  /\ UNCHANGED bjob
  /\ UNCHANGED offBilling

\* handle_subscription_deleted: the webhook cancels the active subscription.
SubscriptionDeleted ==
  /\ BillingBegin
  /\ \E a \in Actors :
       LET subscription == get_user_subscription(subscriptions, a[1], a[2])
       IN /\ subscriptions' =
               [i \in DOMAIN subscriptions |->
                  IF subscriptions[i].id = subscription.id
                    THEN [subscriptions[i] EXCEPT !.status = "cancelled"]
                    ELSE subscriptions[i]]
          /\ blast' = [n |-> bcalls', op |-> "subscription_deleted", user_id |-> a[1],
                       org_id |-> a[2], plan_id |-> 0, status_code |-> "200"]
  /\ UNCHANGED <<quotas, bjob>>
  /\ UNCHANGED offBilling

\* The amounts use_quota is called with (1 is the default) and the quota
\* purchases add_quota_from_payment is called with.
UseAmounts == {1, 20, 21}

AddAmounts == {0, 5}

\* get_current_usage_quota: every quota of the model is of the current period,
\* and .first() gives one of those of the user and org; 0 stands for None.
CurrentQuotas(tbl, user_id, org_id) ==
  IF \E i \in DOMAIN tbl : tbl[i].user_id = user_id /\ tbl[i].org_id = org_id
    THEN { i \in DOMAIN tbl : tbl[i].user_id = user_id /\ tbl[i].org_id = org_id }
    ELSE {0}

\* create_usage_quota_for_period(db, subscription, carryover)
create_usage_quota_for_period(id, subscription, plan, carryover) ==
  [id |-> id, subscription_id |-> subscription.id, user_id |-> subscription.user_id,
   org_id |-> subscription.org_id, quota_limit |-> plan.monthly_quota + carryover,
   quota_used |-> 0, quota_remaining |-> plan.monthly_quota + carryover]

\* A use_quota that does not look at what remains.
use_quota_unchecked(quota, amount) ==
  [ok |-> TRUE,
   quota |-> [quota EXCEPT !.quota_used = @ + amount,
                           !.quota_remaining = quota.quota_limit
                                                 - (quota.quota_used + amount)]]

\* use_quota on the quota record found: refused when less than the amount
\* remains, else quota_used += amount and quota_remaining is computed anew.
use_quota(quota, amount) ==
  IF quota.quota_remaining < amount
    THEN [ok |-> FALSE, quota |-> quota]
    ELSE [ok |-> TRUE,
          quota |-> [quota EXCEPT !.quota_used = @ + amount,
                                  !.quota_remaining = quota.quota_limit
                                                        - (quota.quota_used + amount)]]

\* add_quota_from_payment on the quota record found.
add_quota_from_payment(quota, additional_quota) ==
  [quota EXCEPT !.quota_limit = @ + additional_quota,
                !.quota_remaining = @ + additional_quota]

QuotaOutcome(op, a, amount, i, result) ==
  [n |-> bcalls', op |-> op, user_id |-> a[1], org_id |-> a[2], plan_id |-> 0,
   status_code |-> result, amount |-> amount, quota |-> i]

\* use_quota(db, user_id, org_id, amount)
UseQuota ==
  /\ BillingBegin
  /\ \E a \in Actors, amount \in UseAmounts :
       \E i \in CurrentQuotas(quotas, a[1], a[2]) :
         IF i = 0
           THEN /\ quotas' = quotas
                /\ blast' = QuotaOutcome("use_quota", a, amount, i, "False")
           ELSE /\ quotas' = [quotas EXCEPT ![i] = use_quota(quotas[i], amount).quota]
                /\ blast' = QuotaOutcome("use_quota", a, amount, i,
                                         IF use_quota(quotas[i], amount).ok
                                           THEN "True" ELSE "False")
  /\ UNCHANGED <<subscriptions, bjob>>
  /\ UNCHANGED offBilling

\* add_quota_from_payment(db, user_id, org_id, additional_quota)
AddQuotaFromPayment ==
  /\ BillingBegin
  /\ \E a \in Actors, amount \in AddAmounts :
       \E i \in CurrentQuotas(quotas, a[1], a[2]) :
         IF i = 0
           THEN /\ quotas' = quotas
                /\ blast' = QuotaOutcome("add_quota_from_payment", a, amount, i, "False")
           ELSE /\ quotas' = [quotas EXCEPT
                                ![i] = add_quota_from_payment(quotas[i], amount)]
                /\ blast' = QuotaOutcome("add_quota_from_payment", a, amount, i, "True")
  /\ UNCHANGED <<subscriptions, bjob>>
  /\ UNCHANGED offBilling

\* renew_subscription_period for the active subscription of a user and org, as
\* the invoice webhook calls it: a new quota that carries over what remains of
\* the current one.
RenewSubscriptionPeriod ==
  /\ BillingBegin
  /\ \E a \in Actors :
       LET subscription == get_user_subscription(subscriptions, a[1], a[2])
       IN /\ subscription # NoRow
          /\ \E i \in CurrentQuotas(quotas, a[1], a[2]) :
               /\ quotas' = Append(quotas,
                                   create_usage_quota_for_period(
                                     Len(quotas) + 1, subscription,
                                     get_plan_by_id(subscription.plan_id),
                                     IF i = 0 THEN 0 ELSE quotas[i].quota_remaining))
               /\ blast' = QuotaOutcome("renew_subscription_period", a, 0, i, "value")
  /\ UNCHANGED <<subscriptions, bjob>>
  /\ UNCHANGED offBilling

\* create_subscription of a concurrent request up to its db.commit(): the
\* lookups of user, org and plan and the check for an active subscription.
CreateSubscriptionSelect(s) ==
  /\ BillingBegin
  /\ bjob[s] = NoReq
  /\ \E a \in Subscribers, plan_id \in PlanIds :
       LET call == [n |-> bcalls', op |-> "create_subscription", user_id |-> a[1],
                    org_id |-> a[2], plan_id |-> plan_id]
           refused ==
             CASE a[1] \notin { b[1] : b \in Actors } -> "404"
               [] get_plan_by_id(plan_id) = NoRow -> "404"
               [] get_user_subscription(subscriptions, a[1], a[2]) # NoRow -> "400"
               [] OTHER -> "no"
       IN IF refused # "no"
            THEN /\ blast' = [n |-> call.n, op |-> call.op, user_id |-> call.user_id,
                              org_id |-> call.org_id, plan_id |-> call.plan_id,
                              status_code |-> refused]
                 /\ bjob' = bjob
            ELSE /\ bjob' = [bjob EXCEPT ![s] = call]
                 /\ blast' = blast
  /\ UNCHANGED <<subscriptions, quotas>>
  /\ UNCHANGED offBilling

\* db.add(subscription); db.commit() and what follows it.
CreateSubscriptionCommit(s) ==
  /\ bjob[s] # NoReq
  /\ LET out == PersistSubscription(BillingDb, bjob[s].user_id, bjob[s].org_id,
                                    bjob[s].plan_id)
     IN /\ subscriptions' = out.subscriptions
        /\ quotas' = out.quotas
        /\ blast' = [n |-> bjob[s].n, op |-> bjob[s].op, user_id |-> bjob[s].user_id,
                     org_id |-> bjob[s].org_id, plan_id |-> bjob[s].plan_id,
                     status_code |-> out.status_code]
  /\ bjob' = [bjob EXCEPT ![s] = NoReq]
  /\ UNCHANGED bcalls
  /\ UNCHANGED offBilling

\* The status the webhook stores for a Stripe status; other statuses leave the
\* subscription's status as it is.
StripeStatuses == {"active", "past_due", "unpaid", "canceled", "trialing"}

SubscriptionStatus(stripe_status, current) ==
  CASE stripe_status = "active" -> "active"
    [] stripe_status = "past_due" -> "past_due"
    [] stripe_status = "unpaid" -> "unpaid"
    [] stripe_status = "canceled" -> "cancelled"
    [] OTHER -> current

\* handle_subscription_updated: the active subscription of the user and org
\* takes the status Stripe reports.
SubscriptionUpdated ==
  /\ BillingBegin
  /\ \E a \in Actors, stripe_status \in StripeStatuses :
       LET subscription == get_user_subscription(subscriptions, a[1], a[2])
       IN /\ subscriptions' =
               [i \in DOMAIN subscriptions |->
                  IF subscriptions[i].id = subscription.id
                    THEN [subscriptions[i] EXCEPT
                            !.status = SubscriptionStatus(stripe_status, @)]
                    ELSE subscriptions[i]]
          /\ blast' = [n |-> bcalls', op |-> "subscription_updated", user_id |-> a[1],
                       org_id |-> a[2], plan_id |-> 0, status_code |-> stripe_status]
  /\ UNCHANGED <<quotas, bjob>>
  /\ UNCHANGED offBilling

\* ---- app/routes/upload.py: upload_manual_usdots ----
Digits == {"0", "1", "2", "3", "4", "5", "6", "7", "8", "9"}

\* The pieces between the commas of the form field, character by character:
\* 123456, " 789012", 0000000, 12345, 12a456, 123456789, the empty piece and a
\* blank.
RawTokens ==
  { <<"1", "2", "3", "4", "5", "6">>,
    <<" ", "7", "8", "9", "0", "1", "2">>,
    <<"0", "0", "0", "0", "0", "0", "0">>,
    <<"1", "2", "3", "4", "5">>,
    <<"1", "2", "a", "4", "5", "6">>,
    <<"1", "2", "3", "4", "5", "6", "7", "8", "9">>,
    <<>>,
    <<" ">> }

\* usdot_numbers.split(','): the form fields of the model.
FormFields == UNION { [1..n -> RawTokens] : n \in 1..MaxTokens }

RECURSIVE lstrip(_)
lstrip(t) == IF t # <<>> /\ Head(t) = " " THEN lstrip(Tail(t)) ELSE t

RECURSIVE rstrip(_)
rstrip(t) ==
  IF t # <<>> /\ t[Len(t)] = " " THEN rstrip(SubSeq(t, 1, Len(t) - 1)) ELSE t

\* usdot.strip()
strip(t) == rstrip(lstrip(t))

RECURSIVE Text(_)
Text(t) == IF t = <<>> THEN "" ELSE Head(t) \o Text(Tail(t))

\* usdot_pattern = re.compile(r'^\d{6,8}$'); usdot_pattern.match(usdot)
usdot_pattern(t) ==
  /\ Len(t) >= 6
  /\ Len(t) <= 8
  /\ \A i \in DOMAIN t : t[i] \in Digits

\* not usdot_numbers or not usdot_numbers.strip(): the field is blank
NoneProvided(fields) == Len(fields) = 1 /\ strip(fields[1]) = <<>>

\* raw_usdots, then valid_usdots, as texts
raw_usdots(fields) == [i \in DOMAIN fields |-> strip(fields[i])]

valid_usdots(fields) ==
  LET ok == SelectSeq(raw_usdots(fields), LAMBDA t : t # <<>> /\ usdot_pattern(t))
  IN [i \in DOMAIN ok |-> Text(ok[i])]

invalid_usdots(fields) ==
  LET bad == SelectSeq(raw_usdots(fields), LAMBDA t : t # <<>> /\ ~usdot_pattern(t))
  IN [i \in DOMAIN bad |-> Text(bad[i])]

\* the dot readings the registry is asked about: every one but the orphan
LookedUp(valid) == SelectSeq(valid, LAMBDA u : u # "0000000")

\* save_carrier_data_bulk called on the new session of a request, from its
\* selects to its commit or rollback.
save_carrier_data_bulk(db, batch, user_id, org_id, t) ==
  LET cg == generate_carrier_records(EmptyPend, db.carriers, batch, org_id)
      sg == generate_crm_sync_records(EmptyPend, db.syncs, SuccessfulUsdots(batch),
                                      user_id, org_id, t)
      newC == NewRows(cg.records)
      p == [cUpd |-> Dirty(cg.cUpd),
            cIns |-> [i \in DOMAIN newC |-> [row |-> newC[i], org_id |-> org_id]],
            sUpd |-> Dirty(sg.sUpd),
            sIns |-> NewRows(sg.records),
            sDel |-> {}]
  IN IF ~BulkGuard(cg.records, sg.records)
       THEN [kind |-> "empty", carriers |-> db.carriers, syncs |-> db.syncs]
       ELSE IF FlushSucceeds(p, db.carriers, db.syncs)
              THEN [kind |-> "value",
                    carriers |-> CommittedCarriers(p, db.carriers),
                    syncs |-> CommittedSyncs(p, db.syncs)]
              ELSE [kind |-> "raised", carriers |-> db.carriers, syncs |-> db.syncs]

\* app.crud.ocr_results.save_ocr_results_bulk: one stored record per record
\* given.
save_ocr_results_bulk(tbl, dot_readings, user_id, org_id) ==
  tbl \o [i \in DOMAIN dot_readings |->
            [id |-> Len(tbl) + i, dot_reading |-> dot_readings[i],
             user_id |-> user_id, org_id |-> org_id]]

UploadOutcome(fields, a, status_code, looked, flags) ==
  [t |-> now', fields |-> fields, user_id |-> a[1], org_id |-> a[2],
   status_code |-> status_code, lookups |-> looked, flags |-> flags]

\* One request to POST /upload/manual.  The registry answers each lookup with a
\* record flagged successful or not.
upload_manual_usdots ==
  /\ now < MaxUploads
  /\ now' = now + 1
  /\ \E fields \in FormFields, a \in Actors :
       LET valid == valid_usdots(fields)
           looked == LookedUp(valid)
       IN IF NoneProvided(fields) \/ valid = <<>>
            THEN /\ ulast' = UploadOutcome(fields, a, "400", <<>>, <<>>)
                 /\ UNCHANGED <<carriers, syncs, ocr>>
            ELSE \E flags \in [DOMAIN looked -> BOOLEAN] :
                   LET ok == SelectSeq([i \in DOMAIN looked |-> <<looked[i], flags[i]>>],
                                       LAMBDA lr : lr[2])
                       safer_lookups == [i \in DOMAIN ok |-> CarrierDataCreate(ok[i], now')]
                       saved == IF safer_lookups # <<>>
                                  THEN save_carrier_data_bulk(
                                         [carriers |-> carriers, syncs |-> syncs],
                                         safer_lookups, a[1], a[2], now')
                                  ELSE [kind |-> "skipped", carriers |-> carriers,
                                        syncs |-> syncs]
                   IN /\ carriers' = saved.carriers
                      /\ syncs' = saved.syncs
                      /\ IF saved.kind = "raised"
                           THEN /\ ocr' = ocr
                                /\ ulast' = UploadOutcome(fields, a, "500", looked, flags)
                           ELSE /\ ocr' = save_ocr_results_bulk(ocr, valid, a[1], a[2])
                                /\ ulast' = UploadOutcome(fields, a, "200", looked, flags)
  /\ UNCHANGED offManual

\* ---- session timeout (middleware/session_timeout.py) ----
\* SessionTimeoutMiddleware.__init__: the default of timeout_seconds.
timeout == 900

\* Request paths, as sequences of characters.
LogoutPath == <<"/", "l", "o", "g", "o", "u", "t">>

StaticPath == <<"/", "s", "t", "a", "t", "i", "c">>

Paths ==
  { LogoutPath, LogoutPath \o <<"/", "x">>, StaticPath \o <<"/", "a">>, <<"/">>,
    <<"/", "l", "o", "g", "i", "n">>, <<"/", "s", "t", "a", "t", "s">> }

\* The seconds that pass between two requests.
Waits == {0, 450, 900, 901}

\* str.startswith
startswith(path, prefix) ==
  /\ Len(path) >= Len(prefix)
  /\ SubSeq(path, 1, Len(prefix)) = prefix

\* The paths that skip the timeout check.
Exempt(path) == startswith(path, LogoutPath) \/ startswith(path, StaticPath)

\* A session without any key.
EmptySession == [k \in {} |-> 0]

\* `if last_activity:` on session.get("last_activity"): the key is present and
\* its value is not zero.
HasActivity(sess) == "last_activity" \in DOMAIN sess /\ sess["last_activity"] # 0

\* The session has a last_activity older than the timeout at time t.
Expired(sess, t) == HasActivity(sess) /\ t - sess["last_activity"] > timeout

\* The downstream handler: the handler of /logout clears the session, the
\* other handlers leave last_activity alone.  `seen` is the session the handler
\* was called with.
call_next(sess, path) ==
  [response |-> "handled", reached |-> TRUE, seen |-> sess,
   session |-> IF path = LogoutPath THEN EmptySession ELSE sess]

\* Mutated dispatch: an expired request is redirected, but its time is
\* recorded as the last activity.
dispatch_refreshes_on_redirect(sess, path, t) ==
  IF Exempt(path)
    THEN call_next(sess, path)
    ELSE IF Expired(sess, t)
           THEN [response |-> "redirect:/logout", reached |-> FALSE, seen |-> sess,
                 session |-> [last_activity |-> t]]
           ELSE call_next([last_activity |-> t], path)

\* SessionTimeoutMiddleware.dispatch at time t.
dispatch(sess, path, t) ==
  IF Exempt(path)
    THEN call_next(sess, path)
    ELSE IF Expired(sess, t)
           THEN [response |-> "redirect:/logout", reached |-> FALSE, seen |-> sess,
                 session |-> sess]
           ELSE call_next([last_activity |-> t], path)

\* One request passes through the middleware, `wait` seconds after the one
\* before it.
Request ==
  \E path \in Paths, wait \in Waits :
    /\ wall + wait <= MaxWall
    /\ wall' = wall + wait
    /\ LET r == dispatch(session, path, wall + wait)
       IN /\ session' = r.session
          /\ slast' = [op |-> "request", path |-> path, now |-> wall + wait,
                       before |-> session, response |-> r.response,
                       reached |-> r.reached, seen |-> r.seen]
    /\ UNCHANGED offSession

\* ---- specifications ----
Init ==
  /\ carriers = <<>>
  /\ syncs = <<>>
  /\ now = 0
  /\ pc = [s \in Sessions |-> "idle"]
  /\ req = [s \in Sessions |-> NoReq]
  /\ pend = [s \in Sessions |-> EmptyPend]
  /\ last = [session |-> "none", call |-> NoReq, kind |-> "none", rows |-> <<>>]
  /\ history = <<>>
  /\ mappings = <<>>
  /\ mjob = [s \in Sessions |-> NoReq]
  /\ mlast = NoReq
  /\ mcalls = 0
  /\ subscriptions = <<>>
  /\ quotas = <<>>
  /\ blast = NoReq
  /\ bcalls = 0
  /\ bjob = [s \in Sessions |-> NoReq]
  /\ ocr = <<>>
  /\ ulast = NoReq
  /\ wall = 1
  /\ session = EmptySession
  /\ slast = NoReq

Next ==
  \/ \E s \in Sessions :
       \/ BulkBegin(s)
       \/ UpsertBegin(s)
       \/ UpdateBegin(s)
       \/ DeleteBegin(s)
       \/ CommitOK(s)
       \/ CommitFails(s)
       \/ FlushFails(s)
       \/ Close(s)

\* Requests of concurrent sessions interleave at their database round trips.
Spec == Init /\ [][Next]_vars

\* No call is in flight on any session.
Quiet == \A s \in Sessions : pc[s] = "idle"

\* Calls made one after the other: a call starts only when none is in flight.
\* Sessions still outlive a call, with whatever it left staged.
NextSerial ==
  \/ \E s \in Sessions :
       \/ Quiet /\ BulkBegin(s)
       \/ Quiet /\ UpsertBegin(s)
       \/ Quiet /\ UpdateBegin(s)
       \/ Quiet /\ DeleteBegin(s)
       \/ CommitOK(s)
       \/ CommitFails(s)
       \/ FlushFails(s)
       \/ Close(s)

SpecSerial == Init /\ [][NextSerial]_vars

\* save_carrier_data_bulk is the only function called.
NextBulk ==
  \/ \E s \in Sessions :
       \/ BulkBegin(s)
       \/ CommitOK(s)
       \/ CommitFails(s)
       \/ Close(s)

SpecBulk == Init /\ [][NextBulk]_vars

\* Only the sync status functions are called, on a session per request.  None
\* of them writes before its commit, so no row is locked while a call is
\* between its select and its commit.
NextStatus ==
  \/ \E s \in Sessions :
       \/ UpsertBegin(s)
       \/ UpdateBegin(s)
       \/ DeleteBegin(s)
       \/ CommitOK(s)
       \/ CommitFails(s)

SpecStatus == Init /\ [][NextStatus]_vars

\* Carriers are saved, pushed to the CRM and their sync status deleted, one
\* call after the other.
NextHistory ==
  \/ \E s \in Sessions :
       \/ Quiet /\ BulkBegin(s)
       \/ Quiet /\ DeleteBegin(s)
       \/ Quiet /\ CreateHistory(s)
       \/ Quiet /\ upload_carriers_to_salesforce(s)
       \/ CommitOK(s)
       \/ CommitFails(s)
       \/ FlushFails(s)
       \/ Close(s)

SpecHistory == Init /\ [][NextHistory]_vars

\* The field-mapping functions, called by concurrent requests.
NextMapping ==
  \/ \E s \in Sessions :
       \/ SaveSelect(s)
       \/ DefaultsSelect(s)
       \/ SaveCommit(s)
       \/ DeleteSelect(s)
       \/ DeleteCommit(s)

SpecMapping == Init /\ [][NextMapping]_vars

MappingQuiet == \A s \in Sessions : MappingIdle(s)

\* The field-mapping functions, called one after the other.
NextMappingSerial ==
  \/ \E s \in Sessions :
       \/ MappingQuiet /\ SaveSelect(s)
       \/ MappingQuiet /\ DefaultsSelect(s)
       \/ SaveCommit(s)
       \/ MappingQuiet /\ DeleteSelect(s)
       \/ DeleteCommit(s)

SpecMappingSerial == Init /\ [][NextMappingSerial]_vars

\* The billing calls, made one after the other.
NextBilling ==
  \/ CreateSubscription
  \/ SubscribeToPlan
  \/ SubscriptionDeleted
  \/ UseQuota

SpecBilling == Init /\ [][NextBilling]_vars

\* Quotas are created with a subscription or its renewal, used and topped up,
\* one call after the other.
NextQuota ==
  \/ CreateSubscription
  \/ UseQuota
  \/ AddQuotaFromPayment
  \/ RenewSubscriptionPeriod

SpecQuota == Init /\ [][NextQuota]_vars

\* create_subscription called by concurrent requests, with the subscription
\* webhooks of Stripe arriving in between.
NextBillingRace ==
  \/ \E s \in Sessions :
       \/ CreateSubscriptionSelect(s)
       \/ CreateSubscriptionCommit(s)
  \/ SubscriptionUpdated
  \/ SubscriptionDeleted

SpecBillingRace == Init /\ [][NextBillingRace]_vars

\* Manual upload requests, served one after the other.
NextManual == upload_manual_usdots

SpecManual == Init /\ [][NextManual]_vars

\* Requests of one browser session, one after the other.
NextTimeout == Request

SpecTimeout == Init /\ [][NextTimeout]_vars

\* ---- properties ----

\* C1: under every interleaving of save_carrier_data_bulk, upsert_crm_sync_status,
\* update_crm_sync_status and delete_crm_sync_status, the table holds at most one
\* CRMSyncStatus row per (usdot, org_id).
C1_OneRowPerKey ==
  \A k \in Keys : Len(SyncRows(syncs, k)) <= 1

\* A session is about to insert a row whose key another session has inserted
\* since this one looked.
C1_Witness ==
  \E s \in Sessions :
    /\ pc[s] = "commit"
    /\ \E i \in DOMAIN pend[s].sIns : HasSync(syncs, KeyOf(pend[s].sIns[i]))

\* The (usdot, org_id) pairs a session's staged carrier writes were made for.
StagedCarrierOwners(p) ==
  { <<e.usdot, e.org_id>> : e \in p.cUpd } \cup
  { <<p.cIns[i].row.usdot, p.cIns[i].org_id>> : i \in DOMAIN p.cIns }

\* C2: whenever a CarrierData row is written by a save_carrier_data_bulk call
\* made for organization O, the sync row (usdot, O) exists in the same committed
\* state.
C2_CarrierHasSyncRow ==
  [][\A s \in Sessions :
       CommitOK(s) =>
         \A k \in StagedCarrierOwners(pend[s]) : HasSync(syncs', k)]_vars

\* The precondition of C3: distinct usdots, all flagged successful, none of them
\* associated with the organization when the call is made.
C3_Pre(call) ==
  /\ call.op = "bulk"
  /\ \A i, j \in DOMAIN call.batch :
       i # j => call.batch[i].usdot # call.batch[j].usdot
  /\ \A i \in DOMAIN call.batch :
       call.batch[i].lookup_success_flag /\ call.batch[i].usdot \in call.fresh

\* C3: a save_carrier_data_bulk call with N >= 1 distinct usdots, all flagged
\* successful and none yet associated with the organization, that commits adds
\* exactly N sync rows, one per usdot of the batch for that organization, each
\* PENDING with a null external id, and returns the N carrier records.
C3_NewBatchCreatesPending ==
  [][\A s \in Sessions :
       (CommitOK(s) /\ C3_Pre(req[s])) =>
         LET batch == req[s].batch
         IN /\ Len(syncs') = Len(syncs) + Len(batch)
            /\ \A i \in DOMAIN batch :
                 LET rows == SyncRows(syncs', <<batch[i].usdot, req[s].org_id>>)
                 IN /\ Len(rows) = 1
                    /\ rows[1].sobject_sync_status = "PENDING"
                    /\ rows[1].sobject_id = NULL
                    /\ rows[1].user_id = req[s].user_id
            /\ last'.kind = "value"
            /\ Len(last'.rows) = Len(batch)
            /\ \A i \in DOMAIN batch :
                 last'.rows[i].usdot = batch[i].usdot]_vars

C3_Witness ==
  /\ last.kind = "value"
  /\ C3_Pre(last.call)
  /\ Len(last.call.batch) = MaxBatch
  /\ \A i \in DOMAIN last.call.batch :
       LET rows == SyncRows(syncs, <<last.call.batch[i].usdot, last.call.org_id>>)
       IN rows # <<>> /\ rows[1].sobject_sync_status = "PENDING"

\* C4: created_at of a sync row never changes while the row exists, whatever
\* save_carrier_data_bulk, upsert_crm_sync_status or update_crm_sync_status
\* call writes it.
C4_CreatedAtImmutable ==
  [][\A k \in Keys :
       (HasSync(syncs, k) /\ HasSync(syncs', k)) =>
         SyncRows(syncs', k)[1].created_at = SyncRows(syncs, k)[1].created_at]_vars

\* A row that was written again after its insertion.
C4_Witness ==
  \E i \in DOMAIN syncs : syncs[i].updated_at > syncs[i].created_at

\* C5: every write to an existing sync row leaves updated_at greater than or
\* equal to its previous value, and in every reachable state updated_at >=
\* created_at.
C5_UpdatedAtMonotonic ==
  /\ [](\A i \in DOMAIN syncs : syncs[i].updated_at >= syncs[i].created_at)
  /\ [][\A k \in Keys :
          (HasSync(syncs, k) /\ HasSync(syncs', k)) =>
            SyncRows(syncs', k)[1].updated_at >= SyncRows(syncs, k)[1].updated_at]_vars

\* C6: there is never more than one CarrierData row per usdot, and once a
\* save_carrier_data_bulk call commits, the row of each usdot of its batch
\* carries the data of that call in every field, also when read with
\* get_carrier_data through any organization that holds the usdot.
C6_CarrierLastWriteWins ==
  /\ [](\A u \in Usdots : Len(CarrierRows(carriers, u)) <= 1)
  /\ [][\A s \in Sessions :
          (CommitOK(s) /\ req[s].op = "bulk") =>
            \A i \in DOMAIN req[s].batch :
              LET u == req[s].batch[i].usdot
                  d == req[s].batch[LastIndex(req[s].batch, u)]
                  Carries(rows) ==
                    /\ Len(rows) = 1
                    /\ rows[1].legal_name = d.legal_name
                    /\ rows[1].phone = d.phone
              IN /\ Carries(CarrierRows(carriers', u))
                 /\ \A o \in Orgs :
                      HasSync(syncs', <<u, o>>) =>
                        Carries(CarrierRows(
                                  get_carrier_data(EmptyPend, carriers', syncs', o), u))]_vars

\* Organization B's bulk save has overwritten a carrier that organization A
\* held before.
C6_Witness ==
  /\ last.kind = "value"
  /\ last.call.op = "bulk"
  /\ last.call.org_id = "orgB"
  /\ \E i \in DOMAIN last.call.batch :
       LET u == last.call.batch[i].usdot
       IN /\ HasSync(syncs, <<u, "orgA">>)
          /\ SyncRows(syncs, <<u, "orgA">>)[1].created_at < last.call.batch[i].legal_name
          /\ CarrierRows(get_carrier_data(EmptyPend, carriers, syncs, "orgA"), u)[1].phone
               = last.call.batch[i].phone

\* The organization a call is made for, and the usdots it is made for.
OrgOf(call) == IF call.op = "bulk" THEN call.org_id ELSE call.key[2]

UsdotsOf(call) ==
  IF call.op = "bulk"
    THEN { call.batch[i].usdot : i \in DOMAIN call.batch }
    ELSE { call.key[1] }

\* C7: a save_carrier_data_bulk, upsert, update or delete call made for
\* (usdot, organization B) leaves the sync row of (usdot, organization A)
\* unchanged in every field, for every A different from B.
C7_OtherOrgUntouched ==
  [][\A s \in Sessions :
       (pc[s] = "commit" /\ pc'[s] = "idle") =>
         \A k \in Keys :
           (k[1] \in UsdotsOf(req[s]) /\ k[2] # OrgOf(req[s])) =>
             SyncRows(syncs', k) = SyncRows(syncs, k)]_vars

\* C8: after upsert_crm_sync_status returns, the row of its key has exactly the
\* given user_id, status and external id (null when none is given), whatever
\* the row was before.
C8_UpsertOverwrites ==
  [][\A s \in Sessions :
       (CommitOK(s) /\ req[s].op = "upsert") =>
         LET rows == SyncRows(syncs', req[s].key)
         IN /\ Len(rows) = 1
            /\ rows[1].user_id = req[s].user_id
            /\ rows[1].sobject_sync_status = req[s].sync_status
            /\ rows[1].sobject_id = req[s].sobject_id
            /\ last'.kind = "value"
            /\ last'.rows = rows]_vars

\* A failed push was upserted onto a row that was SUCCESS.
C8_Witness ==
  /\ last.kind = "value"
  /\ last.call.op = "upsert"
  /\ last.call.before = "SUCCESS"
  /\ last.call.sync_status = "FAILED"
  /\ SyncRows(syncs, last.call.key)[1].sobject_id = NULL

\* C9: in every reachable state a sync row has a non-null external id only when
\* its status is SUCCESS.
C9_ExternalIdOnlyOnSuccess ==
  \A i \in DOMAIN syncs :
    syncs[i].sobject_id # NULL => syncs[i].sobject_sync_status = "SUCCESS"

\* C10: a delete on an existing row removes exactly that row, returns True and
\* leaves every other sync row and every carrier unchanged, and the row is then
\* not found; a delete on a missing row returns False and changes nothing.
C10_DeleteRemovesExactlyOne ==
  /\ [][\A s \in Sessions :
          (CommitOK(s) /\ req[s].op = "delete") =>
            /\ last'.kind = "True"
            /\ syncs' = SelectSeq(syncs, LAMBDA r : KeyOf(r) # req[s].key)
            /\ carriers' = carriers
            /\ get_crm_sync_status_by_usdot(EmptyPend, syncs', req[s].key) = NULL]_vars
  /\ [][\A s \in Sessions :
          (DeleteBegin(s) /\ last'.kind = "False") =>
            /\ ~HasSync(syncs, last'.call.key)
            /\ UNCHANGED <<carriers, syncs>>]_vars

\* C11: the sync history is append-only.  Every step keeps the rows the table
\* had, in place and unchanged; a call of create_crm_sync_history_record adds
\* exactly one row; a committed delete of a sync status row leaves the history
\* as it was.
C11_HistoryAppendOnly ==
  [][/\ Len(history') >= Len(history)
     /\ SubSeq(history', 1, Len(history)) = history
     /\ \A s \in Sessions :
          CreateHistory(s) =>
            /\ Len(history') = Len(history) + 1
            /\ history'[Len(history')].usdot = last'.call.usdot
            /\ history'[Len(history')].org_id = last'.call.org_id
            /\ history'[Len(history')].sync_status = last'.call.status
     /\ \A s \in Sessions :
          (CommitOK(s) /\ req[s].op = "delete") => history' = history]_vars

\* The sync status row of a carrier with a history record was deleted, and
\* the history still holds its records.
C11_Witness ==
  /\ last.call.op = "delete"
  /\ last.kind = "True"
  /\ Len(history) >= 2
  /\ \E i \in DOMAIN history :
       /\ history[i].usdot = last.call.key[1]
       /\ history[i].org_id = last.call.key[2]
  /\ \A i \in DOMAIN history : history[i].id = i

\* C12: a push attempt that posts carriers appends, for every carrier posted,
\* exactly one history record of that carrier and the pushing org, and leaves
\* the carrier's sync status row of that org updated at the time of the attempt
\* with the status recorded in the history.
C12_PushRecordsEveryCarrier ==
  [][\A s \in Sessions :
       (upload_carriers_to_salesforce(s) /\ last'.kind # "404") =>
         \A i \in DOMAIN last'.call.posted :
           LET u == last'.call.posted[i]
               k == <<u, last'.call.org_id>>
               added == { j \in (Len(history) + 1)..Len(history') :
                            /\ history'[j].usdot = u
                            /\ history'[j].org_id = last'.call.org_id }
           IN /\ Cardinality(added) = 1
              /\ HasSync(syncs', k)
              /\ SyncRows(syncs', k)[1].updated_at = now'
              /\ \A j \in added :
                   SyncRows(syncs', k)[1].sobject_sync_status = history'[j].sync_status]_vars

\* C13: when the commit of save_carrier_data_bulk raises, the call ends with an
\* error, the stored carriers and sync rows are what they were, and the session
\* keeps nothing of the batch staged for a later commit.
C13_FailedBulkRollsBack ==
  [][\A s \in Sessions :
       (CommitFails(s) /\ req[s].op = "bulk") =>
         /\ last'.kind = "raised"
         /\ last'.call = req[s]
         /\ carriers' = carriers
         /\ syncs' = syncs
         /\ pend'[s] = EmptyPend]_vars

\* A bulk save of distinct carriers raised: a concurrent request had inserted
\* one of them after this call looked it up.
C13_Witness ==
  /\ last.kind = "raised"
  /\ last.call.op = "bulk"
  /\ \A i, j \in DOMAIN last.call.batch :
       i # j => last.call.batch[i].usdot # last.call.batch[j].usdot
  /\ \E i \in DOMAIN last.call.batch : HasCarrier(carriers, last.call.batch[i].usdot)
  /\ \A sess \in Sessions : pend[sess] = EmptyPend

\* C14: a save_field_mapping that repeats the save made just before it, with
\* the same org, carrier field, Salesforce field and field type, changes
\* nothing: the table holds exactly one row of that org and carrier field, and
\* the row is active and carries the values given.
C14_SaveTwiceIdempotent ==
  [][\A s \in Sessions :
       (SaveCommit(s) /\ RepeatsSave(mlast, mjob[s])) =>
         /\ mappings' = mappings
         /\ Cardinality(MappingRows(mappings', mjob[s].org_id, mjob[s].carrier_field)) = 1
         /\ \A r \in MappingRows(mappings', mjob[s].org_id, mjob[s].carrier_field) :
              /\ r.is_active
              /\ r.salesforce_field = mjob[s].salesforce_field
              /\ r.field_type = mjob[s].field_type]_vars

\* The same save was made twice in a row; the second found the row of the first.
C14_Witness ==
  /\ mlast.op = "save"
  /\ mlast.rest = TRUE
  /\ mlast.existing = TRUE
  /\ Cardinality(MappingRows(mappings, mlast.org_id, mlast.carrier_field)) = 1

\* C15: in every reachable state an org has at most one active row per carrier
\* field, and no step removes a row from the table: every row stays, with its
\* id, org and carrier field.
C15_OneActiveMappingPerField ==
  /\ [](\A org_id \in Orgs, cf \in CarrierFields :
          Cardinality({ r \in MappingRows(mappings, org_id, cf) : r.is_active }) <= 1)
  /\ [][/\ Len(mappings') >= Len(mappings)
        /\ \A i \in DOMAIN mappings :
             /\ mappings'[i].id = mappings[i].id
             /\ mappings'[i].org_id = mappings[i].org_id
             /\ mappings'[i].carrier_field = mappings[i].carrier_field]_vars

\* C16: when concurrent requests upsert the same existing (usdot, org_id) row,
\* no upsert is rejected while the row is there, and each commit leaves the
\* row with the user_id, status and external id of the request that commits:
\* the row of the last commit is that of one writer, never a mixture.
C16_LastCommitWins ==
  [][\A s \in Sessions :
       (req[s].op = "upsert" /\ req[s].before # "absent") =>
         /\ CommitFails(s) => ~HasSync(syncs, req[s].key)
         /\ CommitOK(s) =>
              /\ HasSync(syncs', req[s].key)
              /\ SyncRows(syncs', req[s].key)[1].user_id = req[s].user_id
              /\ SyncRows(syncs', req[s].key)[1].sobject_sync_status = req[s].sync_status
              /\ SyncRows(syncs', req[s].key)[1].sobject_id = req[s].sobject_id]_vars

\* C18: in every reachable state get_carrier_data(org_id = O), read on a new
\* session, returns each stored carrier whose usdot has a sync row of O exactly
\* once, as stored, and no carrier without a sync row of O.
C18_OrgSeesOwnCarriers ==
  \A o \in Orgs :
    LET res == get_carrier_data(EmptyPend, carriers, syncs, o)
    IN /\ \A u \in Usdots :
            Len(CarrierRows(res, u)) =
              IF HasCarrier(carriers, u) /\ HasSync(syncs, <<u, o>>) THEN 1 ELSE 0
       /\ \A i \in DOMAIN res : res[i] = CarrierRows(carriers, res[i].usdot)[1]

\* Both carriers are stored, orgA looked up only 123456 and orgB only 789012:
\* orgA is shown 123456 alone.
C18_Witness ==
  /\ HasCarrier(carriers, "123456") /\ HasCarrier(carriers, "789012")
  /\ HasSync(syncs, <<"123456", "orgA">>) /\ ~HasSync(syncs, <<"789012", "orgA">>)
  /\ HasSync(syncs, <<"789012", "orgB">>) /\ ~HasSync(syncs, <<"123456", "orgB">>)
  /\ Len(get_carrier_data(EmptyPend, carriers, syncs, "orgA")) = 1
  /\ get_carrier_data(EmptyPend, carriers, syncs, "orgA")[1].usdot = "123456"

\* C19: a sync row that a bulk save creates has no synced-at timestamp.
C19_NewRowNeverSynced ==
  [][\A s \in Sessions :
       (CommitOK(s) /\ req[s].op = "bulk") =>
         \A i \in DOMAIN syncs' :
           ~HasSync(syncs, KeyOf(syncs'[i])) =>
             syncs'[i].subject_synched_at = NoTimestamp]_vars

\* C17: a create_subscription or a subscribe request made for a user and org
\* that have an active subscription ends with an HTTP error (400, or 404 when
\* create_subscription is given a plan that does not exist) and leaves the
\* subscriptions and the usage quotas as they were.
C17_SecondSubscriptionRejected ==
  [][(/\ CreateSubscription \/ SubscribeToPlan
      /\ \E i \in DOMAIN subscriptions :
           /\ subscriptions[i].user_id = blast'.user_id
           /\ subscriptions[i].org_id = blast'.org_id
           /\ subscriptions[i].status = "active") =>
       /\ \/ blast'.status_code = "400"
          \/ blast'.status_code = "404" /\ get_plan_by_id(blast'.plan_id) = NoRow
       /\ subscriptions' = subscriptions
       /\ quotas' = quotas]_vars

\* A user with an active subscription and its quota asked for a plan that
\* exists and was refused with 400.
C17_Witness ==
  /\ blast.op = "create_subscription"
  /\ blast.status_code = "400"
  /\ get_plan_by_id(blast.plan_id) # NoRow
  /\ Len(subscriptions) = 1
  /\ Len(quotas) = 1
  /\ subscriptions[1].user_id = blast.user_id
  /\ subscriptions[1].org_id = blast.org_id
  /\ subscriptions[1].status = "active"

\* C20: a manual upload request asks the registry exactly once for each piece
\* of the field that is a number of 6 to 8 digits other than 0000000, in order,
\* and for no other piece; it writes carriers only from lookups flagged
\* successful and writes no carrier or sync row when none succeeded; it stores
\* one lookup-history record for every valid piece; a blank field or one without
\* a valid piece is answered 400 with no lookup and nothing stored.
C20_ManualUpload ==
  [][upload_manual_usdots =>
       LET pieces == [i \in DOMAIN ulast'.fields |-> strip(ulast'.fields[i])]
           numbers == SelectSeq(pieces, LAMBDA t : /\ Len(t) \in 6..8
                                                   /\ \A i \in DOMAIN t : t[i] \in Digits)
           wanted == SelectSeq(numbers, LAMBDA t : Text(t) # "0000000")
       IN IF numbers = <<>>
            THEN /\ ulast'.status_code = "400"
                 /\ ulast'.lookups = <<>>
                 /\ UNCHANGED <<carriers, syncs, ocr>>
            ELSE /\ ulast'.lookups = [i \in DOMAIN wanted |-> Text(wanted[i])]
                 /\ \A i \in DOMAIN carriers' :
                      (i \notin DOMAIN carriers \/ carriers'[i] # carriers[i]) =>
                        \E j \in DOMAIN ulast'.lookups :
                          /\ ulast'.lookups[j] = carriers'[i].usdot
                          /\ ulast'.flags[j]
                 /\ (\A j \in DOMAIN ulast'.flags : ~ulast'.flags[j]) =>
                      UNCHANGED <<carriers, syncs>>
                 /\ Len(ocr') = Len(ocr) + Len(numbers)
                 /\ \A i \in DOMAIN numbers :
                      ocr'[Len(ocr) + i].dot_reading = Text(numbers[i])]_vars

\* C21: in every reachable state get_crm_sync_status_by_org(org_id, status),
\* read on a new session, returns exactly the sync rows of the org (those of
\* the given status when one is given), each once, ordered newest-first by
\* created_at.
C21_ByOrgNewestFirst ==
  \A o \in Orgs, f \in Statuses \cup {NULL} :
    \A res \in get_crm_sync_status_by_org(syncs, o, f) :
      /\ \A i \in DOMAIN res :
           /\ res[i].org_id = o
           /\ f # NULL => res[i].sobject_sync_status = f
      /\ \A r \in { syncs[i] : i \in DOMAIN syncs } :
           (r.org_id = o /\ (f # NULL => r.sobject_sync_status = f)) =>
             Cardinality({ i \in DOMAIN res : res[i] = r }) = 1
      /\ \A i, j \in DOMAIN res :
           i < j => res[i].created_at >= res[j].created_at

\* The call a step of save_carrier_data_bulk up to its commit was made with.
BulkCallOf(s) == IF pc'[s] = "commit" THEN req'[s] ELSE last'.call

\* The step is save_carrier_data_bulk on session s up to its commit: the call
\* goes on to its commit, or it returns at once.
BulkStep(s) ==
  /\ now' = now + 1
  /\ pc[s] = "idle"
  /\ \/ pc'[s] = "commit" /\ req'[s].op = "bulk"
     \/ pc' = pc /\ last'.session = s /\ last'.call.op = "bulk"

\* C22: save_carrier_data_bulk goes on to its commit only when the batch is
\* non-empty and every item is flagged lookup-successful; otherwise it returns
\* an empty list and stores nothing.  Nothing of a dropped batch is stored by a
\* later commit on the session either: a commit changes or adds only carrier
\* rows and sync rows of the call that commits.
C22_DroppedBatchNeverPersisted ==
  /\ [][\A s \in Sessions :
          BulkStep(s) =>
            /\ pc'[s] = "commit" <=>
                 /\ Len(BulkCallOf(s).batch) > 0
                 /\ \A i \in DOMAIN BulkCallOf(s).batch :
                      BulkCallOf(s).batch[i].lookup_success_flag
            /\ pc'[s] # "commit" =>
                 /\ last'.kind = "empty"
                 /\ last'.rows = <<>>
                 /\ UNCHANGED <<carriers, syncs>>]_vars
  /\ [][\A s \in Sessions :
          CommitOK(s) =>
            /\ \A u \in Usdots :
                 CarrierRows(carriers', u) # CarrierRows(carriers, u) =>
                   req[s].op = "bulk" /\ u \in UsdotsOf(req[s])
            /\ \A k \in Keys :
                 SyncRows(syncs', k) # SyncRows(syncs, k) =>
                   k[1] \in UsdotsOf(req[s]) /\ k[2] = OrgOf(req[s])]_vars

\* C23: a save_carrier_data_bulk call that commits and meets an existing row of
\* (usdot, org_id) leaves on it the user_id of the call and the time of the call
\* as updated_at, and leaves its sync status, external id, synced-at and
\* created_at as they were, whatever the status.
C23_RelookupKeepsOutcome ==
  [][\A s \in Sessions :
       (CommitOK(s) /\ req[s].op = "bulk") =>
         \A i \in DOMAIN req[s].batch :
           LET k == <<req[s].batch[i].usdot, req[s].org_id>>
               old == SyncRows(syncs, k)
               new == SyncRows(syncs', k)
           IN old # <<>> =>
                /\ Len(new) = 1
                /\ new[1].user_id = req[s].user_id
                /\ new[1].updated_at = now
                /\ new[1].sobject_sync_status = old[1].sobject_sync_status
                /\ new[1].sobject_id = old[1].sobject_id
                /\ new[1].subject_synched_at = old[1].subject_synched_at
                /\ new[1].created_at = old[1].created_at]_vars

\* A carrier pushed with success was looked up again: the row keeps SUCCESS,
\* its external id and the time of the push.
C23_Witness ==
  /\ last.kind = "value"
  /\ last.call.op = "bulk"
  /\ \E i \in DOMAIN last.call.batch :
       LET rows == SyncRows(syncs, <<last.call.batch[i].usdot, last.call.org_id>>)
       IN /\ rows # <<>>
          /\ rows[1].sobject_sync_status = "SUCCESS"
          /\ rows[1].sobject_id # NULL
          /\ rows[1].updated_at = now
          /\ rows[1].subject_synched_at < now

\* The step is a request to POST /salesforce/upload_carriers that posted
\* carriers.
PushStep ==
  /\ now' = now + 1
  /\ last'.call.op = "push"
  /\ last'.call.t = now'
  /\ last'.kind # "404"

\* The history rows a step adds for a carrier and an org.
AddedHistory(u, org_id) ==
  { j \in (Len(history) + 1)..Len(history') :
      history'[j].usdot = u /\ history'[j].org_id = org_id }

\* C24: the history record and the status update of a push attempt are
\* committed one after the other, the history record first.  When the status
\* update raises, the history record of the attempt stays stored and the sync
\* status row of the carrier and org is what it was; when the history write
\* raises, neither is written; the status of a carrier is never written
\* without the history record of the attempt.
C24_HistoryCommittedFirst ==
  [][PushStep =>
       \A i \in DOMAIN last'.call.posted :
         LET u == last'.call.posted[i]
             org_id == last'.call.org_id
             o == ItemOutcome(last'.call.resp, u)
             k == <<u, org_id>>
         IN /\ (o # "none" /\ last'.call.faults[u] = "status") =>
                 /\ Cardinality(AddedHistory(u, org_id)) = 1
                 /\ \A j \in AddedHistory(u, org_id) : history'[j].sync_status = o
                 /\ SyncRows(syncs', k) = SyncRows(syncs, k)
            /\ last'.call.faults[u] = "history" =>
                 /\ AddedHistory(u, org_id) = {}
                 /\ SyncRows(syncs', k) = SyncRows(syncs, k)
            /\ SyncRows(syncs', k) # SyncRows(syncs, k) =>
                 Cardinality(AddedHistory(u, org_id)) = 1]_vars

\* The status update of a push raised: the newest history record of the
\* carrier and org tells the outcome of the attempt, the sync status row still
\* tells another.
C24_Witness ==
  /\ last.call.op = "push"
  /\ last.kind # "404"
  /\ \E i \in DOMAIN last.call.posted :
       LET u == last.call.posted[i]
           k == <<u, last.call.org_id>>
           mine == { j \in DOMAIN history : history[j].usdot = u /\
                                            history[j].org_id = last.call.org_id }
       IN /\ last.call.faults[u] = "status"
          /\ mine # {}
          /\ HasSync(syncs, k)
          /\ \E j \in mine :
               /\ \A n \in mine : n <= j
               /\ history[j].sync_timestamp = now
               /\ history[j].sync_status # SyncRows(syncs, k)[1].sobject_sync_status

\* C25: an update of the sync status of a (usdot, org_id) that has no row
\* returns None and leaves the sync rows as they were, whether it is a call of
\* update_crm_sync_status of crud/crm_sync_status.py or the status update the
\* push route makes for a carrier it posted.
C25_UpdateOfMissingRowCreatesNone ==
  /\ [][\A s \in Sessions :
          (UpdateBegin(s) /\ pc' = pc /\ last'.session = s /\ last'.call.op = "update"
             /\ ~HasSync(syncs, last'.call.key)) =>
            /\ last'.kind = "None"
            /\ syncs' = syncs]_vars
  /\ [][PushStep =>
          \A i \in DOMAIN last'.call.posted :
            LET k == <<last'.call.posted[i], last'.call.org_id>>
            IN ~HasSync(syncs, k) => ~HasSync(syncs', k)]_vars

\* C26: in a push of several carriers, every carrier that has a result and
\* whose two writes succeed gets exactly one history record and its status
\* update, whatever happened to the other carriers of the batch: a result with
\* errors, a history write that raised or a status update that raised.
C26_FailedItemDoesNotBlock ==
  [][PushStep =>
       \A i \in DOMAIN last'.call.posted :
         LET u == last'.call.posted[i]
             org_id == last'.call.org_id
             o == ItemOutcome(last'.call.resp, u)
             k == <<u, org_id>>
         IN (o # "none" /\ last'.call.faults[u] = "none") =>
              /\ Cardinality(AddedHistory(u, org_id)) = 1
              /\ \A j \in AddedHistory(u, org_id) :
                   /\ history'[j].sync_status = o
                   /\ history'[j].user_id = last'.call.user_id
              /\ Len(SyncRows(syncs', k)) = 1
              /\ SyncRows(syncs', k)[1].sobject_sync_status = o
              /\ SyncRows(syncs', k)[1].updated_at = now'
              /\ SyncRows(syncs', k)[1].user_id = last'.call.user_id]_vars

\* Two carriers were posted.  The push of the first failed, or one of its
\* writes raised; the second was created and has its history record and status.
C26_Witness ==
  /\ last.call.op = "push"
  /\ last.kind = "has_errors"
  /\ last.call.posted = <<"123456", "789012">>
  /\ last.call.resp.results["123456"] = "errors"
  /\ last.call.faults["123456"] # "none"
  /\ last.call.resp.results["789012"] = "id"
  /\ last.call.faults["789012"] = "none"
  /\ history # <<>>
  /\ history[Len(history)].usdot = "789012"
  /\ history[Len(history)].sync_status = "SUCCESS"
  /\ history[Len(history)].sync_timestamp = now
  /\ HasSync(syncs, <<"789012", last.call.org_id>>)
  /\ SyncRows(syncs, <<"789012", last.call.org_id>>)[1].sobject_sync_status = "SUCCESS"
  /\ SyncRows(syncs, <<"789012", last.call.org_id>>)[1].updated_at = now

\* The rows of the table other than that of the given id are what they were.
OtherMappingsUnchanged(id) ==
  /\ Len(mappings') = Len(mappings)
  /\ \A i \in DOMAIN mappings : mappings[i].id # id => mappings'[i] = mappings[i]

\* C27: delete_field_mapping on an existing mapping sets is_active to false,
\* returns True and takes the mapping off the list of get_field_mappings_by_org;
\* with no row it returns False and changes nothing.  A save_field_mapping for
\* an (org, field) that has a row, soft-deleted or not, inserts no row: that
\* row is active again with the Salesforce field and type given, and is listed.
C27_SoftDeleteAndReactivate ==
  /\ [][\A s \in Sessions :
          DeleteCommit(s) =>
            /\ mlast'.result = TRUE
            /\ OtherMappingsUnchanged(mjob[s].existing.id)
            /\ \A i \in DOMAIN mappings :
                 mappings[i].id = mjob[s].existing.id =>
                   mappings'[i] = [mappings[i] EXCEPT !.is_active = FALSE]
            /\ \A r \in get_field_mappings_by_org(mappings', mjob[s].org_id) :
                 r.carrier_field # mjob[s].carrier_field]_vars
  /\ [][\A s \in Sessions :
          (DeleteSelect(s) /\ mjob' = mjob) =>
            /\ mlast'.result = FALSE
            /\ MappingRows(mappings, mlast'.org_id, mlast'.carrier_field) = {}
            /\ mappings' = mappings]_vars
  /\ [][\A s \in Sessions :
          (SaveCommit(s) /\ mjob[s].op = "save" /\ mjob[s].existing # NoMapping) =>
            /\ OtherMappingsUnchanged(mjob[s].existing.id)
            /\ \A i \in DOMAIN mappings :
                 mappings[i].id = mjob[s].existing.id =>
                   mappings'[i] = [mappings[i] EXCEPT
                                     !.is_active = TRUE,
                                     !.salesforce_field = mjob[s].salesforce_field,
                                     !.field_type = mjob[s].field_type]
            /\ Cardinality({ r \in get_field_mappings_by_org(mappings', mjob[s].org_id) :
                               r.carrier_field = mjob[s].carrier_field }) = 1]_vars

\* A mapping was saved, soft-deleted and saved again: the table holds the one
\* row, active, with the Salesforce field of the last save, and it is listed.
C27_Witness ==
  /\ mlast.op = "save"
  /\ mlast.reactivated
  /\ Len(mappings) = 1
  /\ mappings[1].is_active
  /\ mappings[1].salesforce_field = mlast.salesforce_field
  /\ get_field_mappings_by_org(mappings, mlast.org_id) = {mappings[1]}

\* C28: in every state reached by create_subscription calls of concurrent
\* requests, cancellations and subscription webhooks, a user and org have at
\* most one subscription whose status is active.
C28_OneActiveSubscription ==
  \A a \in Subscribers :
    Cardinality({ i \in DOMAIN subscriptions :
                    /\ subscriptions[i].user_id = a[1]
                    /\ subscriptions[i].org_id = a[2]
                    /\ subscriptions[i].status = "active" }) <= 1

\* The step is a call of use_quota.
UseQuotaStep == bcalls' = bcalls + 1 /\ blast'.op = "use_quota"

\* C29: every quota record has quota_remaining = quota_limit - quota_used and
\* 0 <= quota_used <= quota_limit, after any sequence of quota creations,
\* use_quota calls of an amount of 1 or more and add_quota_from_payment calls
\* of an amount of 0 or more.  A use_quota of more than remains, or with no
\* current quota record, returns False and changes nothing; otherwise it
\* returns True and counts the amount as used on the record found.
C29_QuotaConsistent ==
  /\ [](\A i \in DOMAIN quotas :
          /\ quotas[i].quota_remaining = quotas[i].quota_limit - quotas[i].quota_used
          /\ 0 <= quotas[i].quota_used
          /\ quotas[i].quota_used <= quotas[i].quota_limit)
  /\ [][UseQuotaStep =>
          IF blast'.quota = 0
            THEN /\ \A i \in DOMAIN quotas :
                      ~(quotas[i].user_id = blast'.user_id /\ quotas[i].org_id = blast'.org_id)
                 /\ blast'.status_code = "False"
                 /\ quotas' = quotas
            ELSE IF blast'.amount > quotas[blast'.quota].quota_remaining
                   THEN blast'.status_code = "False" /\ quotas' = quotas
                   ELSE /\ blast'.status_code = "True"
                        /\ quotas' = [quotas EXCEPT
                                        ![blast'.quota].quota_used = @ + blast'.amount,
                                        ![blast'.quota].quota_remaining = @ - blast'.amount]]_vars

\* A quota was used to the last unit, and the next use_quota was refused.
C29_Witness ==
  /\ blast.op = "use_quota"
  /\ blast.status_code = "False"
  /\ blast.quota # 0
  /\ quotas[blast.quota].quota_used > 0
  /\ quotas[blast.quota].quota_remaining < blast.amount
  /\ quotas[blast.quota].quota_remaining = 0

\* C30: a request whose path starts with neither /logout nor /static and whose
\* session has a last_activity older than the timeout is redirected to /logout,
\* does not reach the downstream handler and leaves the session as it was;
\* every other such request reaches the handler with last_activity set to the
\* time of the request.  An expired session stays expired, and its requests
\* keep being redirected, until the session is cleared.
C30_ExpiredSessionRedirected ==
  [][LET r == slast'
     IN /\ ~Exempt(r.path) /\ Expired(session, r.now)
             => /\ r.response = "redirect:/logout"
                /\ ~r.reached
                /\ session' = session
        /\ ~Exempt(r.path) /\ ~Expired(session, r.now)
             => /\ r.reached
                /\ r.seen = [last_activity |-> r.now]
                /\ session' = [last_activity |-> r.now]
        /\ ~Exempt(r.path) /\ Expired(session, wall)
             => r.response = "redirect:/logout"
        /\ Expired(session, wall) /\ session' # EmptySession
             => Expired(session', wall')]_vars

\* A request of an expired session has been redirected without reaching the
\* handler, and the session still holds the last_activity it had, which is
\* older than the timeout.
C30_Witness ==
  /\ slast.op = "request"
  /\ ~Exempt(slast.path)
  /\ slast.response = "redirect:/logout"
  /\ ~slast.reached
  /\ slast.before = session
  /\ Expired(session, wall)

====
